---- MODULE Spec2Model ----
(***************************************************************************)
(* A model of pyramid_admin's SQLAlchemy ModelView                         *)
(* (src/pyramid_admin/contrib/sqla/view.py): the composite primary-key     *)
(* codec, the join-path resolver, search / filter composition in get_list  *)
(* and the create / update / delete lifecycle.                             *)
(*                                                                         *)
(* Text is modelled as a sequence of one-character strings.                *)
(***************************************************************************)
EXTENDS Integers, Sequences, FiniteSets, TLC

VARIABLES
    op,          \* name of the last ModelView operation that ran
    view,        \* the ModelView instance's configuration (set by __init__)
    \* ---- primary-key codec
    pkModel,     \* model object handed to the last get_pk_value
    token,       \* value returned by the last get_pk_value
    idArg,       \* id handed to the last get_one
    lookup,      \* key get_one handed to session.query(model).get(...)
    \* ---- query building
    query,       \* the query being built: its base and the calls made on it
    joins,       \* the joins dictionary shared by the calls on `query`
    njoincalls,  \* number of _apply_path_joins calls made on `query` directly
    count_query, \* get_list's count query (NoQuery when there is none)
    count_joins, \* the joins dictionary of the count query
    listArgs,    \* the arguments of the last get_list
    count,       \* the count get_list returned
    \* ---- the request
    propagated,  \* exception that left the last operation ("none" if none)
    session,     \* the rows as the session's current transaction sees them
    db,          \* the rows as last committed
    ret,         \* what the last create / update / delete operation returned
    flashes,     \* the messages flashed during the request
    logs,        \* the entries logged during the request
    doomed,      \* whether the request's transaction is doomed
    calls,       \* the calls the operation made on its collaborators, in order
    crudArgs,    \* the arguments of the last create / update / delete operation
    \* ---- scaffolding
    scaffold     \* argument and result of the last scaffolding call on the view

pkVars == <<pkModel, token, idArg, lookup>>
queryVars == <<query, joins, njoincalls, count_query, count_joins, listArgs, count>>
reqVars == <<propagated, session, db, ret, flashes, logs, doomed, calls, crudArgs>>
vars == <<op, view, pkVars, queryVars, reqVars, scaffold>>

----------------------------------------------------------------------------
(* Bounds *)

\* longest value of the first / second primary-key column (in characters)
MaxKeyLen == 2
MaxKey2Len == 1

\* most direct _apply_path_joins calls on one query
MaxJoinCalls == 3

\* largest get_list request: characters of the search string plus twice
\* the number of active filters
MaxRequestSize == 5

\* most rows of the model's table
MaxObjs == 2

\* longest search string of a search-only request
MaxSearchLen == 4

\* longest dotted attribute name, in name tokens and dots
MaxNameLen == 5

\* most columns of the list view
MaxListColumns == 2

\* most properties of a mapped model drawn from the property universe
MaxProps == 3

\* most entries of column_searchable_list
MaxSearchable == 2

\* longest string value handed to the JSON encoder
MaxStrLen == 3

\* longest filename drawn from the whole alphabet
MaxFileLen == 3

----------------------------------------------------------------------------
(* Text helpers *)

TextOver(chars, n) == UNION {[1..k -> chars] : k \in 0..n}

RECURSIVE Concat(_)
Concat(seqs) == IF seqs = <<>> THEN <<>> ELSE Head(seqs) \o Concat(Tail(seqs))

----------------------------------------------------------------------------
(* pyramid_admin.contrib.sqla.tools: escape / iterencode / iterdecode      *)

CHAR_ESCAPE == "."
CHAR_SEPARATOR == ","

\* tools.escape: the escape character is doubled, the separator is prefixed
\* with the escape character
escape(value) ==
    Concat([i \in 1..Len(value) |->
        IF value[i] = CHAR_ESCAPE THEN <<CHAR_ESCAPE, CHAR_ESCAPE>>
        ELSE IF value[i] = CHAR_SEPARATOR THEN <<CHAR_ESCAPE, CHAR_SEPARATOR>>
        ELSE <<value[i]>>])

RECURSIVE JoinSep(_)
JoinSep(parts) ==
    IF parts = <<>> THEN <<>>
    ELSE IF Len(parts) = 1 THEN parts[1]
    ELSE parts[1] \o <<CHAR_SEPARATOR>> \o JoinSep(Tail(parts))

\* tools.iterencode: the propagated values joined with the separator
iterencode(values) == JoinSep([i \in 1..Len(values) |-> escape(values[i])])

\* tools.iterdecode: one pass over the token; an escape character makes the
\* next character literal, an unescaped separator ends the current value
RECURSIVE DecodeFrom(_, _, _, _, _)
DecodeFrom(value, i, result, accumulator, escaped) ==
    IF i > Len(value) THEN Append(result, accumulator)
    ELSE IF ~escaped /\ value[i] = CHAR_ESCAPE
        THEN DecodeFrom(value, i + 1, result, accumulator, TRUE)
    ELSE IF ~escaped /\ value[i] = CHAR_SEPARATOR
        THEN DecodeFrom(value, i + 1, Append(result, accumulator), <<>>, FALSE)
    ELSE DecodeFrom(value, i + 1, result, Append(accumulator, value[i]), FALSE)

iterdecode(value) == DecodeFrom(value, 1, <<>>, <<>>, FALSE)

----------------------------------------------------------------------------
(* The mapped schema: tables, relationship attributes, join paths          *)

\* tables of the view's own model (model._sa_class_manager.mapper.tables)
ModelTables == {"post"}

\* a relationship attribute (an InstrumentedAttribute whose property has a
\* direction): owner.key leads to the table `target`
Rel(owner, key, target) ==
    [kind |-> "rel", owner |-> owner, key |-> key, target |-> target]

\* a Table object used as a path item
Tbl(table) == [kind |-> "table", owner |-> "", key |-> table, target |-> table]

RelAuthor == Rel("post", "author", "user")
RelCity == Rel("user", "city", "city")
RelTags == Rel("post", "tags", "tag")

PathItems == {RelAuthor, RelCity, RelTags, Tbl("user"), Tbl("tag")}

\* join paths as _get_field_with_path, scaffold_filters and handle_filter
\* build them: a chain of relationship attributes, or one table
Paths == {<<>>, <<RelAuthor>>, <<RelAuthor, RelCity>>, <<RelTags>>,
          <<Tbl("user")>>, <<Tbl("tag")>>}

----------------------------------------------------------------------------
(* Queries: a base and the generative calls made on it, in order           *)

None == [cls |-> "None", of |-> "None", n |-> 0]

NewQuery(base) == [base |-> base, calls |-> <<>>]

NoQuery == NewQuery("None")

Call(q, c) == [q EXCEPT !.calls = Append(@, c)]

\* aliased(cls): a new alias object on every call
aliased(q, cls) == [cls |-> cls, of |-> q.base, n |-> Len(q.calls) + 1]

\* keys of the joins dictionary: the tuple (inner_join, item) that
\* _apply_path_joins looks up, or the bare table that get_list stores
PathKey(inner_join, item) == [tuple |-> TRUE, inner |-> inner_join, item |-> item]
BareKey(table) == [tuple |-> FALSE, inner |-> FALSE, item |-> Tbl(table)]

PathKeys == {PathKey(b, it) : b \in BOOLEAN, it \in PathItems}

DictGet(d, key) == IF key \in DOMAIN d THEN d[key] ELSE None
DictSet(d, key, value) ==
    [k \in DOMAIN d \cup {key} |-> IF k = key THEN value ELSE d[k]]
EmptyDict == [k \in {} |-> None]

\* one iteration of the loop of _apply_path_joins with a body that joins
\* but does not record the key
JoinStepForgetful(q, j, item, inner_join, last) ==
    LET key == PathKey(inner_join, item)
        alias == IF item.kind # "table" THEN aliased(q, item.target) ELSE None
    IN [query |-> Call(q, [call |-> IF inner_join THEN "join" ELSE "outerjoin",
                           item |-> item, via |-> last, alias |-> alias]),
        joins |-> j,
        last |-> alias]

\* one iteration of the loop of _apply_path_joins
JoinStep(q, j, item, inner_join, last) ==
    LET key == PathKey(inner_join, item)
        known == key \in DOMAIN j
        alias == IF known THEN DictGet(j, key)
                 ELSE IF item.kind # "table" THEN aliased(q, item.target)
                 ELSE None
    IN IF known
       THEN [query |-> q, joins |-> j, last |-> alias]
       ELSE [query |-> Call(q, [call |-> IF inner_join THEN "join" ELSE "outerjoin",
                                item |-> item, via |-> last, alias |-> alias]),
             joins |-> DictSet(j, key, alias),
             last |-> alias]

RECURSIVE JoinLoop(_, _, _, _, _, _)
JoinLoop(q, j, path, inner_join, i, last) ==
    IF i > Len(path) THEN [query |-> q, joins |-> j, last |-> last]
    ELSE LET r == JoinStep(q, j, path[i], inner_join, last)
         IN JoinLoop(r.query, r.joins, path, inner_join, i + 1, r.last)

\* _apply_path_joins(query, joins, path, inner_join): (query, joins, last)
_apply_path_joins(q, j, path, inner_join) ==
    JoinLoop(q, j, path, inner_join, 1, None)

IsJoin(c) == c.call \in {"join", "outerjoin"}

JoinKey(c) == PathKey(c.call = "join", c.item)

\* positions of the joins that `q` got for `key`
JoinsFor(q, key) ==
    {i \in 1..Len(q.calls) : IsJoin(q.calls[i]) /\ JoinKey(q.calls[i]) = key}

NoToken == <<"none">>

PkIdle ==
    /\ pkModel = [k1 |-> <<>>, k2 |-> <<>>]
    /\ token = NoToken
    /\ idArg = <<>>
    /\ lookup = <<>>

NoListArgs ==
    [page |-> -1, sort_column |-> "None", sort_desc |-> FALSE,
     search |-> <<>>, filters |-> <<>>, execute |-> FALSE]

QueryIdle ==
    /\ query = NoQuery
    /\ joins = EmptyDict
    /\ njoincalls = 0
    /\ count_query = NoQuery
    /\ count_joins = EmptyDict
    /\ listArgs = NoListArgs
    /\ count = "None"

NoFault == [at |-> "none", exc |-> "none"]

NoCrudArgs == [obj |-> 0, ids |-> {}, data |-> "none", fault |-> NoFault,
               plan |-> <<>>]

ObjIds == 1..MaxObjs

\* no scaffolding call made yet
NoAttr == [kind |-> "None", owner |-> "", key |-> "", target |-> ""]
NoScaffold == [name |-> <<>>, attr |-> NoAttr, path |-> <<>>, value |-> <<>>]

ReqIdle ==
    /\ scaffold = NoScaffold
    /\ propagated = "none"
    /\ ret = "None"
    /\ flashes = <<>>
    /\ logs = <<>>
    /\ doomed = FALSE
    /\ calls = <<>>
    /\ crudArgs = NoCrudArgs

StoreIdle ==
    /\ db = {<<i, "old">> : i \in ObjIds}
    /\ session = db

\* a caller starts a query of its own (get_query)
StartQuery ==
    /\ op = "idle"
    /\ op' = "get_query"
    /\ query' = NewQuery("query(model)")
    /\ joins' = EmptyDict
    /\ njoincalls' = 0
    /\ UNCHANGED <<view, scaffold, pkVars, count_query, count_joins, listArgs, count, reqVars>>

\* a caller applies one more join path to its query, with the same
\* joins dictionary
ApplyPathJoins(path, inner_join) ==
    /\ op \in {"get_query", "_apply_path_joins"}
    /\ njoincalls < MaxJoinCalls
    /\ \E r \in {_apply_path_joins(query, joins, path, inner_join)} :
          /\ query' = r.query
          /\ joins' = r.joins
    /\ njoincalls' = njoincalls + 1
    /\ op' = "_apply_path_joins"
    /\ UNCHANGED <<view, scaffold, pkVars, count_query, count_joins, listArgs, count, reqVars>>

----------------------------------------------------------------------------
(* Search: tools.parse_like_term, ILIKE, _apply_search                     *)

Col(table, key) == [table |-> table, key |-> key]

ColTitle == Col("post", "title")
ColUserName == Col("user", "name")
ColCityName == Col("city", "name")

SearchChars == {"a", "B", " "}

\* str.split(sep): the pieces between the separators, empty ones included
RECURSIVE SplitFrom(_, _, _, _)
SplitFrom(s, sep, i, piece) ==
    IF i > Len(s) THEN <<piece>>
    ELSE IF s[i] = sep THEN <<piece>> \o SplitFrom(s, sep, i + 1, <<>>)
    ELSE SplitFrom(s, sep, i + 1, Append(piece, s[i]))

\* str.split() without a separator: the pieces between runs of whitespace
RECURSIVE SplitWhitespaceFrom(_, _, _)
SplitWhitespaceFrom(s, i, piece) ==
    IF i > Len(s) THEN <<piece>>
    ELSE IF s[i] \in {" ", "\t"}
        THEN <<piece>> \o SplitWhitespaceFrom(s, i + 1, <<>>)
    ELSE SplitWhitespaceFrom(s, i + 1, Append(piece, s[i]))

split_whitespace(s, sep) == SplitWhitespaceFrom(s, 1, <<>>)

split(s, sep) == SplitFrom(s, sep, 1, <<>>)

\* tools.parse_like_term: ^term is a prefix pattern, =term an exact one,
\* anything else a substring pattern
parse_like_term(term) ==
    IF term # <<>> /\ Head(term) = "^" THEN Tail(term) \o <<"%">>
    ELSE IF term # <<>> /\ Head(term) = "=" THEN Tail(term)
    ELSE <<"%">> \o term \o <<"%">>

Lower(c) == IF c = "A" THEN "a" ELSE IF c = "B" THEN "b" ELSE c

\* the value of a column that is NULL in a row
NULL == <<"NULL">>

\* SQL LIKE on case-folded text: % is any run of characters, _ any one
RECURSIVE LikeMatch(_, _)
LikeMatch(pattern, value) ==
    IF pattern = <<>> THEN value = <<>>
    ELSE IF Head(pattern) = "%"
        THEN \/ LikeMatch(Tail(pattern), value)
             \/ value # <<>> /\ LikeMatch(pattern, Tail(value))
    ELSE /\ value # <<>>
         /\ Head(pattern) = "_" \/ Lower(Head(pattern)) = Lower(Head(value))
         /\ LikeMatch(Tail(pattern), Tail(value))

\* column.ilike(stmt) on a row's value of the column
ilike(value, stmt) == value # NULL /\ LikeMatch(stmt, value)

\* the column a predicate is written against: the field itself, or the
\* attribute of the same name on the alias of the joined class
ColumnOf(field, alias) == [column |-> field, alias |-> alias]

\* the joins of a path on the count query, when there is one
CountPathJoins(cq, cj, path) ==
    IF cq # NoQuery
    THEN _apply_path_joins(cq, cj, path, FALSE)
    ELSE [query |-> cq, joins |-> cj, last |-> None]

\* the ILIKE clauses of one search field, on the aliases `r` and `c` that
\* joining its path gave for the query and the count query
SearchFieldStep(st, field, stmt, r, c) ==
    [query |-> r.query, joins |-> r.joins,
     count_query |-> c.query, count_joins |-> c.joins,
     filter_stmt |-> Append(st.filter_stmt,
         [on |-> ColumnOf(field, r.last), ilike |-> stmt]),
     count_filter_stmt |-> Append(st.count_filter_stmt,
         [on |-> ColumnOf(field, c.last), ilike |-> stmt])]

\* the loop over self._search_fields for one term
RECURSIVE SearchFieldLoop(_, _, _)
SearchFieldLoop(st, stmt, i) ==
    IF i > Len(view._search_fields) THEN st
    ELSE SearchFieldLoop(
            SearchFieldStep(st, view._search_fields[i].column, stmt,
                _apply_path_joins(st.query, st.joins,
                                  view._search_fields[i].path, FALSE),
                CountPathJoins(st.count_query, st.count_joins,
                               view._search_fields[i].path)),
            stmt, i + 1)

FilterAnd(q, filter_stmt) ==
    Call(q, [call |-> "filter", connective |-> "and_", clauses |-> filter_stmt])

\* query.filter(or_(*filter_stmt))
FilterOr(q, filter_stmt) ==
    Call(q, [call |-> "filter", connective |-> "or_", clauses |-> filter_stmt])

\* the end of the loop body: the clauses of one term become one filter
SearchTermFilter(r) ==
    [query |-> FilterOr(r.query, r.filter_stmt),
     joins |-> r.joins,
     count_query |-> IF r.count_query # NoQuery
                     THEN FilterOr(r.count_query, r.count_filter_stmt)
                     ELSE r.count_query,
     count_joins |-> r.count_joins]

\* the loop body with the term itself used as the pattern
SearchTermRaw(st, term) ==
    IF term = <<>> THEN st
    ELSE SearchTermFilter(
            SearchFieldLoop(
                [query |-> st.query, joins |-> st.joins,
                 count_query |-> st.count_query,
                 count_joins |-> st.count_joins,
                 filter_stmt |-> <<>>, count_filter_stmt |-> <<>>],
                term, 1))

\* the body of the loop over the terms
SearchTerm(st, term) ==
    IF term = <<>> THEN st
    ELSE SearchTermFilter(
            SearchFieldLoop(
                [query |-> st.query, joins |-> st.joins,
                 count_query |-> st.count_query,
                 count_joins |-> st.count_joins,
                 filter_stmt |-> <<>>, count_filter_stmt |-> <<>>],
                parse_like_term(term), 1))

RECURSIVE SearchTermLoop(_, _, _)
SearchTermLoop(st, terms, k) ==
    IF k > Len(terms) THEN st
    ELSE SearchTermLoop(SearchTerm(st, terms[k]), terms, k + 1)

\* _apply_search(query, count_query, joins, count_joins, search)
_apply_search(q, cq, j, cj, search) ==
    SearchTermLoop([query |-> q, joins |-> j, count_query |-> cq, count_joins |-> cj],
                   split(search, " "), 1)

----------------------------------------------------------------------------
(* Filters: _apply_filters                                                 *)

\* flt.clean(value): the filter's own conversion of the raw value
Unclean(idx, value) == [cleaned_by |-> 0, raw |-> value]

Clean(idx, value) == [cleaned_by |-> idx, raw |-> value]

\* self._filter_joins.get(flt.column, [])
FilterPath(flt) ==
    IF flt.column \in DOMAIN view._filter_joins
    THEN view._filter_joins[flt.column] ELSE <<>>

\* flt.apply(query, value, alias) / flt.apply(query, value)
Apply(q, idx, value, alias, nargs) ==
    Call(q, [call |-> "apply", flt |-> idx, value |-> value, alias |-> alias,
             nargs |-> nargs])

\* the joins of a filter's column: only a BaseSQLAFilter has them
FilterPathJoins(q, j, flt) ==
    IF flt.sqla
    THEN _apply_path_joins(q, j, FilterPath(flt), FALSE)
    ELSE [query |-> q, joins |-> j, last |-> None]

FilterCountPathJoins(cq, cj, flt) ==
    IF flt.sqla
    THEN CountPathJoins(cq, cj, FilterPath(flt))
    ELSE [query |-> cq, joins |-> cj, last |-> None]

\* the try block: flt.apply on the query and the count query, with the
\* joins `r` and `c`; raised is the exception that leaves it
FilterApply(st, idx, flt, clean_value, r, c) ==
    LET joined == [st EXCEPT !.query = r.query, !.joins = r.joins,
                             !.count_query = c.query, !.count_joins = c.joins]
    IN IF flt.takes_alias
       THEN [joined EXCEPT
               !.query = Apply(r.query, idx, clean_value, r.last, 3),
               !.count_query = IF c.query # NoQuery
                               THEN Apply(c.query, idx, clean_value, c.last, 3)
                               ELSE c.query]
       ELSE IF flt.argspec_args = 2
       THEN \* TypeError, a warning, and the call without the alias
            [joined EXCEPT
               !.query = Apply(r.query, idx, clean_value, None, 2),
               !.count_query = IF c.query # NoQuery
                               THEN Apply(c.query, idx, clean_value, None, 2)
                               ELSE c.query]
       ELSE [joined EXCEPT !.raised = "TypeError"]

\* the body of the loop of _apply_filters for one (idx, flt_name, value)
FilterStep(st, f) ==
    FilterApply(st, f[1], view._filters[f[1]], Clean(f[1], f[3]),
        FilterPathJoins(st.query, st.joins, view._filters[f[1]]),
        FilterCountPathJoins(st.count_query, st.count_joins, view._filters[f[1]]))

RECURSIVE FilterLoop(_, _, _)
FilterLoop(st, filters, k) ==
    IF k > Len(filters) \/ st.raised # "none" THEN st
    ELSE FilterLoop(FilterStep(st, filters[k]), filters, k + 1)

\* _apply_filters(query, count_query, joins, count_joins, filters)
_apply_filters(q, cq, j, cj, filters) ==
    FilterLoop([query |-> q, joins |-> j, count_query |-> cq, count_joins |-> cj,
                raised |-> "none"], filters, 1)

----------------------------------------------------------------------------
(* get_list: sorting, pagination and the whole handler                     *)

\* _order_by(query, joins, sort_joins, sort_field, sort_desc)
_order_by(q, j, sort_joins, sort_field, sort_desc) ==
    LET r == _apply_path_joins(q, j, sort_joins, FALSE)
    IN [query |-> Call(r.query, [call |-> "order_by",
                                 on |-> ColumnOf(sort_field, r.last),
                                 desc |-> sort_desc]),
        joins |-> r.joins]

\* _apply_sorting(query, joins, sort_column, sort_desc)
_apply_sorting(q, j, sort_column, sort_desc) ==
    IF sort_column # "None"
    THEN IF sort_column \in DOMAIN view._sortable_columns
         THEN _order_by(q, j,
                        IF sort_column \in DOMAIN view._sortable_joins
                        THEN view._sortable_joins[sort_column] ELSE <<>>,
                        view._sortable_columns[sort_column], sort_desc)
         ELSE [query |-> q, joins |-> j]
    ELSE IF view.default_order.set
         THEN _order_by(q, j, view.default_order.joins,
                        view.default_order.field, view.default_order.desc)
         ELSE [query |-> q, joins |-> j]

\* the joins dictionary after get_list recorded the tables of the
\* entities the base query already joins
RECURSIVE SeedJoins(_, _)
SeedJoins(j, tables) ==
    IF tables = {} THEN j
    ELSE LET t == CHOOSE t \in tables : TRUE
         IN SeedJoins(DictSet(j, BareKey(t), None), tables \ {t})

RECURSIVE AutoJoins(_, _)
AutoJoins(q, i) ==
    IF i > Len(view._auto_joins) THEN q
    ELSE AutoJoins(Call(q, [call |-> "options", joinedload |-> view._auto_joins[i]]),
                   i + 1)

\* a page of -1 stands for page=None
Paginate(q, page) ==
    LET o == IF page # -1
             THEN Call(q, [call |-> "offset", n |-> page * view.page_size])
             ELSE q
    IN Call(o, [call |-> "limit", n |-> view.page_size])

\* the queries and the joins dictionaries get_list starts from
ListStart ==
    [query |-> NewQuery("query(model)"),
     joins |-> SeedJoins(EmptyDict, view.join_entities),
     count_query |-> IF ~view.simple_list_pager
                     THEN NewQuery("query(count).select_from(model)")
                     ELSE NoQuery,
     count_joins |-> EmptyDict]

\* if self._search_supported and search: ...
ListSearch(s, search) ==
    IF view._search_supported /\ search # <<>>
    THEN _apply_search(s.query, s.count_query, s.joins, s.count_joins, search)
    ELSE s

\* if filters and self._filters: ...
ListFilters(s, filters) ==
    IF filters # <<>> /\ view._filters # <<>>
    THEN _apply_filters(s.query, s.count_query, s.joins, s.count_joins, filters)
    ELSE s @@ [raised |-> "none"]

\* if execute: query = query.all()
Execute(q, execute) == IF execute THEN Call(q, [call |-> "all"]) ELSE q

\* the count, pagination and execution, after the sorting gave `sorted`
ListResult(s, sorted, a) ==
    IF s.raised # "none"
    THEN s @@ [count |-> "None"]
    ELSE [query |-> Execute(Paginate(sorted.query, a.page), a.execute),
          joins |-> sorted.joins,
          count_query |-> s.count_query,
          count_joins |-> s.count_joins,
          raised |-> "none",
          count |-> IF s.count_query # NoQuery THEN "scalar" ELSE "None"]

\* the auto joins and the sorting, after search and filters gave `s`
ListSorted(s, a) ==
    ListResult(s,
               _apply_sorting(AutoJoins(s.query, 1), s.joins,
                              a.sort_column, a.sort_desc),
               a)

\* get_list(page, sort_column, sort_desc, search, filters, execute)
get_list(a) ==
    ListSorted(ListFilters(ListSearch(ListStart, a.search), a.filters), a)

\* (idx, flt_name, value) triples of the active filters of a request
FilterValues == {<<"a">>, <<"b">>}
FilterArgs == {<<idx, "flt", v>> : idx \in 1..Len(view._filters), v \in FilterValues}

SeqsUpTo(S, n) == UNION {[1..k -> S] : k \in 0..n}

ListOptions ==
    {[page |-> -1, sort_column |-> "None", sort_desc |-> FALSE, execute |-> TRUE],
     [page |-> 2, sort_column |-> "author_name", sort_desc |-> TRUE, execute |-> TRUE],
     [page |-> 0, sort_column |-> "title", sort_desc |-> FALSE, execute |-> FALSE]}

GetList(a) ==
    /\ op = "idle"
    /\ Len(a.search) + 2 * Len(a.filters) <= MaxRequestSize
    /\ \E r \in {get_list(a)} :
          /\ query' = r.query
          /\ joins' = r.joins
          /\ count_query' = r.count_query
          /\ count_joins' = r.count_joins
          /\ count' = r.count
          /\ propagated' = r.raised
    /\ listArgs' = a
    /\ op' = "get_list"
    /\ UNCHANGED <<view, scaffold, pkVars, njoincalls, session, db, ret, flashes, logs,
                   doomed, calls, crudArgs>>

\* the request ends: what it built is dropped, and its transaction is
\* committed, or aborted if it is doomed or the request failed
EndRequest ==
    /\ op # "idle"
    /\ op' = "idle"
    /\ query' = NoQuery
    /\ joins' = EmptyDict
    /\ njoincalls' = 0
    /\ count_query' = NoQuery
    /\ count_joins' = EmptyDict
    /\ listArgs' = NoListArgs
    /\ count' = "None"
    /\ propagated' = "none"
    /\ ret' = "None"
    /\ flashes' = <<>>
    /\ logs' = <<>>
    /\ doomed' = FALSE
    /\ calls' = <<>>
    /\ crudArgs' = NoCrudArgs
    /\ db' = (IF doomed \/ propagated # "none" THEN db ELSE session)
    /\ session' = db'
    /\ scaffold' = NoScaffold
    /\ UNCHANGED <<view, pkVars>>

----------------------------------------------------------------------------
(* View configurations                                                     *)

SearchField(column, path) == [column |-> column, path |-> path]

Filter(sqla, column, takes_alias, argspec_args) ==
    [sqla |-> sqla, column |-> column, takes_alias |-> takes_alias,
     argspec_args |-> argspec_args]

ColNone == Col("None", "None")

\* the properties a mapper of Post may have, in mapper order
PropertyUniverse ==
    <<[kind |-> "column", owner |-> "post", key |-> "id", target |-> "post"],
      [kind |-> "column", owner |-> "post", key |-> "title", target |-> "post"],
      [kind |-> "column", owner |-> "post", key |-> "author_id", target |-> "post"],
      [kind |-> "column", owner |-> "post", key |-> "base_id", target |-> "post"],
      [kind |-> "column", owner |-> "post", key |-> "fulltitle", target |-> "post"],
      [kind |-> "column", owner |-> "post", key |-> "link", target |-> "post"],
      [kind |-> "column", owner |-> "post", key |-> "ref", target |-> "post"],
      [kind |-> "column", owner |-> "post", key |-> "remote", target |-> "post"],
      RelAuthor,
      Rel("post", "parent", "post"),
      RelTags,
      Rel("post", "comments", "comment")>>

IsPostProperty(p) ==
    p.key \in {"id", "title", "author_id", "author", "parent", "tags", "comments"}

\* the properties of the Post model of the examples
PostProperties == SelectSeq(PropertyUniverse, IsPostProperty)

\* a list-valued option: None, or a tuple of items
NoneList == [none |-> TRUE, items |-> <<>>]
ListOf(items) == [none |-> FALSE, items |-> items]

\* `not option`: None and the empty tuple are both false
Falsy(option) == option.none \/ option.items = <<>>

ViewFilters ==
    <<Filter(TRUE, ColTitle, TRUE, 4),
      Filter(TRUE, ColUserName, TRUE, 4),
      Filter(FALSE, ColNone, TRUE, 4),
      Filter(FALSE, ColNone, FALSE, 2),
      Filter(FALSE, ColNone, FALSE, 3)>>

BaseView ==
    [_primary_key |-> [tuple |-> FALSE, names |-> <<"k1">>],
     _search_supported |-> FALSE,
     _search_fields |-> <<>>,
     _filters |-> ViewFilters,
     _filter_joins |-> [c \in {ColUserName} |-> <<RelAuthor>>],
     _sortable_columns |-> [n \in {"title", "author_name"} |->
                              IF n = "title" THEN ColTitle ELSE ColUserName],
     _sortable_joins |-> [n \in {"author_name"} |-> <<RelAuthor>>],
     default_order |-> [set |-> FALSE, field |-> ColNone, joins |-> <<>>,
                        desc |-> FALSE],
     _auto_joins |-> <<RelAuthor>>,
     join_entities |-> {},
     simple_list_pager |-> FALSE,
     page_size |-> 20,
     fast_mass_delete |-> FALSE,
     can_delete |-> TRUE,
     column_select_related_list |-> NoneList,
     column_auto_select_related |-> TRUE,
     _list_columns |-> <<"title", "author">>,
     properties |-> PostProperties,
     column_display_all_relations |-> FALSE,
     column_display_pk |-> FALSE,
     column_sortable_list |-> NoneList,
     column_searchable_list |-> NoneList]

WithSearch(v, fields) ==
    [v EXCEPT !._search_fields = fields, !._search_supported = TRUE]

ListViews ==
    {BaseView,
     WithSearch(BaseView, <<SearchField(ColTitle, <<>>)>>),
     [WithSearch(BaseView, <<SearchField(ColTitle, <<>>),
                             SearchField(ColUserName, <<RelAuthor>>)>>)
        EXCEPT !.join_entities = {"user"},
               !.default_order = [set |-> TRUE, field |-> ColTitle,
                                  joins |-> <<>>, desc |-> TRUE]],
     [WithSearch(BaseView, <<SearchField(ColUserName, <<Tbl("user")>>),
                             SearchField(ColTitle, <<>>)>>)
        EXCEPT !.join_entities = {"user"}, !.simple_list_pager = TRUE,
               !._filter_joins = [c \in {ColUserName} |-> <<Tbl("user")>>]],
     [WithSearch(BaseView, <<SearchField(ColUserName, <<RelAuthor>>),
                             SearchField(ColCityName, <<RelAuthor, RelCity>>)>>)
        EXCEPT !._auto_joins = <<>>]}

InitQuery ==
    /\ op = "idle"
    /\ view \in ListViews
    /\ PkIdle
    /\ QueryIdle
    /\ ReqIdle
    /\ StoreIdle

\* the get_list requests within the size bound
ListRequests ==
    {[page |-> o.page, sort_column |-> o.sort_column, sort_desc |-> o.sort_desc,
      search |-> r[1], filters |-> r[2], execute |-> o.execute] :
        o \in ListOptions,
        r \in UNION {TextOver(SearchChars, MaxRequestSize - 2 * k)
                        \X [1..k -> FilterArgs] : k \in 0..(MaxRequestSize \div 2)}}

NextQuery ==
    \/ op = "idle" /\ \E a \in ListRequests : GetList(a)
    \/ StartQuery
    \/ \E path \in Paths, inner_join \in BOOLEAN : ApplyPathJoins(path, inner_join)
    \/ EndRequest

SpecQuery == InitQuery /\ [][NextQuery]_vars

ColTagName == Col("tag", "name")

\* list views whose default order needs a join: column_default_sort of
\* 'tags.name' resolves to the column and the path [Post.tags], and of
\* 'author.name' to the path [Post.author]
CountViews ==
    ListViews
    \cup {[WithSearch(BaseView, <<SearchField(ColTitle, <<>>)>>)
             EXCEPT !.default_order = [set |-> TRUE, field |-> ColTagName,
                                       joins |-> <<RelTags>>, desc |-> FALSE]],
          [WithSearch(BaseView, <<SearchField(ColUserName, <<RelAuthor>>)>>)
             EXCEPT !.default_order = [set |-> TRUE, field |-> ColUserName,
                                       joins |-> <<RelAuthor>>, desc |-> FALSE],
                    !._auto_joins = <<>>]}

InitCount ==
    /\ op = "idle"
    /\ view \in CountViews
    /\ PkIdle
    /\ QueryIdle
    /\ ReqIdle
    /\ StoreIdle

NextCount ==
    \/ op = "idle" /\ \E a \in ListRequests : GetList(a)
    \/ EndRequest

SpecCount == InitCount /\ [][NextCount]_vars

\* searches typed into the search box: letters of both cases, the space,
\* the tab, and the two prefixes of tools.parse_like_term
TermChars == {"a", "B", " ", "\t", "^", "="}

SearchRequests ==
    {[NoListArgs EXCEPT !.search = s, !.execute = TRUE] :
        s \in TextOver(TermChars, MaxSearchLen)}

NextSearch ==
    \/ op = "idle" /\ \E a \in SearchRequests : GetList(a)
    \/ EndRequest

SpecSearch == InitQuery /\ [][NextSearch]_vars

----------------------------------------------------------------------------
(* Create / update / delete: the running operation                         *)

Excs == {"IntegrityError", "Exception"}

\* the rows of the model's table: (id, data) pairs
RowIds(store) == {r[1] : r \in store}
AddRow(store, id, data) == {r \in store : r[1] # id} \cup {<<id, data>>}
DelRows(store, ids) == {r \in store : r[1] \notin ids}

\* an operation as it runs: the session it works on, what it has called,
\* flashed and logged, the exception on its way (raised), its return value
Frame(store) ==
    [session |-> store, calls |-> <<>>, flashes |-> <<>>, logs |-> <<>>,
     doomed |-> FALSE, raised |-> "none", ret |-> "None"]

\* a call on a collaborator (the session, the form, a hook): not made when
\* an exception is on its way, and raising when the fault is planted at it
Do(st, fn, obj, fault) ==
    IF st.raised # "none" THEN st
    ELSE LET s1 == [st EXCEPT !.calls = Append(@, [fn |-> fn, obj |-> obj])]
         IN IF fault.at = fn THEN [s1 EXCEPT !.raised = fault.exc] ELSE s1

\* the effect on the session of a call that returned
Effect(st, store) ==
    IF st.raised # "none" THEN st ELSE [st EXCEPT !.session = store]

\* flash(message): a count of -1 stands for a message without a count
Flash(st, text, n) ==
    [st EXCEPT !.flashes = Append(@, [text |-> text, count |-> n])]

\* log.exception(message)
Log(st, text) == [st EXCEPT !.logs = Append(@, text)]

\* leaving the `with self.session.begin_nested():` block: the savepoint is
\* rolled back when the block raised (or when releasing it fails), and
\* released otherwise; nothing is rolled back when begin_nested itself
\* failed
ExitNested(before, entered, body, obj, fault) ==
    LET Rollback(s) ==
            [s EXCEPT !.session = before.session,
                      !.calls = Append(@, [fn |-> "nested.rollback", obj |-> obj])]
    IN IF entered.raised # "none" THEN entered
       ELSE IF body.raised # "none" THEN Rollback(body)
       ELSE LET c == Do(body, "nested.commit", obj, fault)
            IN IF c.raised # "none" THEN Rollback(c) ELSE c

\* BaseModelView.handle_view_exception: not handled
SuperHandleViewException(exc) == FALSE

handle_view_exception_unhandled(st, exc) ==
    IF exc = "IntegrityError"
    THEN [st |-> Flash(st, "Integrity error", -1),
          handled |-> SuperHandleViewException(exc)]
    ELSE [st |-> st, handled |-> SuperHandleViewException(exc)]

\* handle_view_exception(exc): the frame after it, and what it returned
handle_view_exception(st, exc) ==
    IF exc = "IntegrityError"
    THEN [st |-> Flash(st, "Integrity error", -1), handled |-> TRUE]
    ELSE [st |-> st, handled |-> SuperHandleViewException(exc)]

ReportFailureNoLog(st, text) == Flash(st, text, -1)

\* flash(gettext('Failed to ...')) and log.exception('Failed to ...')
ReportFailure(st, text) == Log(Flash(st, text, -1), text)

NoDoom(st) == st

\* transaction.doom()
Doom(st) == [st EXCEPT !.doomed = TRUE]

\* the except clause of create_model / update_model / delete_model
ExceptClause(st, text) ==
    LET h == handle_view_exception([st EXCEPT !.raised = "none"], st.raised)
        r == IF ~h.handled THEN ReportFailure(h.st, text) ELSE h.st
    IN [Doom(r) EXCEPT !.ret = "False"]

\* the id of the row a new model object gets
NewId(store) == CHOOSE i \in ObjIds \ RowIds(store) :
                    \A j \in ObjIds \ RowIds(store) : i <= j

\* create_model(form)
create_model(st, data, fault) ==
    LET new == NewId(st.session)
        s1 == Do(st, "session.begin_nested", new, fault)
        s2 == Do(s1, "model()", new, fault)
        s3 == Do(s2, "form.populate_obj", new, fault)
        s4 == Effect(Do(s3, "session.add", new, fault),
                     AddRow(s3.session, new, data))
        s5 == Do(s4, "_on_model_change", new, fault)
        s6 == Do(s5, "session.flush", new, fault)
        s7 == ExitNested(st, s1, s6, new, fault)
    IN IF s7.raised # "none" THEN ExceptClause(s7, "Failed to create record")
       ELSE LET s8 == Do(s7, "after_model_change", new, fault)
            IN IF s8.raised # "none" THEN s8 ELSE [s8 EXCEPT !.ret = "model"]

\* update_model(form, model)
update_model(st, id, data, fault) ==
    LET s1 == Do(st, "session.begin_nested", id, fault)
        s2 == Effect(Do(s1, "form.populate_obj", id, fault),
                     AddRow(s1.session, id, data))
        s3 == Do(s2, "_on_model_change", id, fault)
        s4 == ExitNested(st, s1, s3, id, fault)
    IN IF s4.raised # "none" THEN ExceptClause(s4, "Failed to update record")
       ELSE LET s5 == Do(s4, "after_model_change", id, fault)
            IN IF s5.raised # "none" THEN s5 ELSE [s5 EXCEPT !.ret = "True"]

\* delete_model(model)
delete_model(st, id, fault) ==
    LET s0 == [st EXCEPT !.calls = Append(@, [fn |-> "delete_model", obj |-> id])]
        s1 == Do(s0, "session.begin_nested", id, fault)
        s2 == Do(s1, "on_model_delete", id, fault)
        s3 == Effect(Do(s2, "session.delete", id, fault),
                     DelRows(s2.session, {id}))
        s4 == Do(s3, "session.flush", id, fault)
        s5 == ExitNested(s0, s1, s4, id, fault)
    IN IF s5.raised # "none" THEN ExceptClause(s5, "Failed to delete record")
       ELSE LET s6 == Do(s5, "after_model_delete", id, fault)
            IN IF s6.raised # "none" THEN s6 ELSE [s6 EXCEPT !.ret = "True"]

\* tools.get_query_for_ids: the rows whose key is among the ids
get_query_for_ids(store, ids) == ids \cap RowIds(store)

NeverFastDelete == FALSE

\* the test of fast_mass_delete in action_delete
UseFastDelete == view.fast_mass_delete

\* the loop with a count of the calls made instead of the calls that
\* returned True
RECURSIVE DeleteLoopCountAll(_, _, _, _)
DeleteLoopCountAll(st, todo, plan, n) ==
    IF todo = {} \/ st.raised # "none" THEN [st |-> st, count |-> n]
    ELSE LET m == CHOOSE i \in todo : \A j \in todo : i <= j
         IN DeleteLoopCountAll(delete_model(st, m, plan[m]), todo \ {m}, plan, n + 1)

\* the loop `for m in query.all(): if self.delete_model(m): count += 1`
RECURSIVE DeleteLoop(_, _, _, _)
DeleteLoop(st, todo, plan, n) ==
    IF todo = {} \/ st.raised # "none" THEN [st |-> st, count |-> n]
    ELSE LET m == CHOOSE i \in todo : \A j \in todo : i <= j
             r == delete_model(st, m, plan[m])
         IN DeleteLoop(r, todo \ {m}, plan,
                       IF r.raised = "none" /\ r.ret = "True" THEN n + 1 ELSE n)

\* action_delete(ids)
action_delete(st, ids, plan, fault) ==
    LET selected == get_query_for_ids(st.session, ids)
        s1 == Do(st, "get_query_for_ids", 0, fault)
        body == IF UseFastDelete
                THEN [st |-> Effect(Do(s1, "query.delete", 0, fault),
                                    DelRows(s1.session, selected)),
                      count |-> Cardinality(selected)]
                ELSE DeleteLoop(Do(s1, "query.all", 0, fault), selected, plan, 0)
        s3 == Do(body.st, "action_delete:session.flush", 0, fault)
    IN IF s3.raised = "none"
       THEN [Flash(s3, "records were successfully deleted", body.count)
               EXCEPT !.ret = "None"]
       ELSE LET h == handle_view_exception([s3 EXCEPT !.raised = "none"], s3.raised)
            IN IF ~h.handled
               THEN [s3 EXCEPT !.ret = "None"]
               ELSE [Flash(Doom(h.st), "Failed to delete records", -1)
                       EXCEPT !.ret = "None"]

----------------------------------------------------------------------------
(* Create / update / delete: the requests                                  *)

Faults(steps) == {NoFault} \cup [at : steps, exc : Excs]

\* the calls made inside the `with self.session.begin_nested():` block
\* (releasing the savepoint at its end included), and the hook after it
CreateScope == {"model()", "form.populate_obj", "session.add",
                "_on_model_change", "session.flush", "nested.commit"}
UpdateScope == {"form.populate_obj", "_on_model_change", "nested.commit"}
DeleteScope == {"on_model_delete", "session.delete", "session.flush",
                "nested.commit"}
AfterHooks == {"after_model_change", "after_model_delete"}

CreateFaults == Faults(CreateScope \cup {"session.begin_nested", "after_model_change"})
UpdateFaults == Faults(UpdateScope \cup {"session.begin_nested", "after_model_change"})
DeleteFaults == Faults(DeleteScope \cup {"session.begin_nested", "after_model_delete"})
ActionFaults == Faults({"get_query_for_ids", "query.delete", "query.all",
                        "action_delete:session.flush"})

FormData == {"new"}

Finish(r) ==
    /\ session' = r.session
    /\ ret' = r.ret
    /\ flashes' = r.flashes
    /\ logs' = r.logs
    /\ doomed' = r.doomed
    /\ calls' = r.calls
    /\ propagated' = r.raised
    /\ UNCHANGED <<view, scaffold, db, pkVars, queryVars>>

CreateModel(data, fault) ==
    /\ op = "idle"
    /\ RowIds(session) # ObjIds
    /\ \E r \in {create_model(Frame(session), data, fault)} : Finish(r)
    /\ crudArgs' = [NoCrudArgs EXCEPT !.obj = NewId(session), !.data = data,
                                      !.fault = fault]
    /\ op' = "create_model"

UpdateModel(id, data, fault) ==
    /\ op = "idle"
    /\ id \in RowIds(session)
    /\ \E r \in {update_model(Frame(session), id, data, fault)} : Finish(r)
    /\ crudArgs' = [NoCrudArgs EXCEPT !.obj = id, !.data = data, !.fault = fault]
    /\ op' = "update_model"

DeleteModel(id, fault) ==
    /\ op = "idle"
    /\ id \in RowIds(session)
    /\ \E r \in {delete_model(Frame(session), id, fault)} : Finish(r)
    /\ crudArgs' = [NoCrudArgs EXCEPT !.obj = id, !.fault = fault]
    /\ op' = "delete_model"

ActionDelete(ids, plan, fault) ==
    /\ op = "idle"
    /\ \E r \in {action_delete(Frame(session), ids, plan, fault)} : Finish(r)
    /\ crudArgs' = [NoCrudArgs EXCEPT !.ids = ids, !.plan = plan, !.fault = fault]
    /\ op' = "action_delete"

CrudViews == {[BaseView EXCEPT !.fast_mass_delete = f] : f \in BOOLEAN}

InitCrud ==
    /\ op = "idle"
    /\ view \in CrudViews
    /\ PkIdle
    /\ QueryIdle
    /\ ReqIdle
    /\ StoreIdle

NextCrud ==
    \/ op = "idle" /\ \E data \in FormData, fault \in CreateFaults :
                          CreateModel(data, fault)
    \/ op = "idle" /\ \E id \in ObjIds, data \in FormData, fault \in UpdateFaults :
                          UpdateModel(id, data, fault)
    \/ op = "idle" /\ \E id \in ObjIds, fault \in DeleteFaults :
                          DeleteModel(id, fault)
    \/ op = "idle" /\ \E ids \in SUBSET ObjIds, fault \in ActionFaults :
                          \E plan \in [get_query_for_ids(session, ids) -> DeleteFaults] :
                              ActionDelete(ids, plan, fault)
    \/ EndRequest

SpecCrud == InitCrud /\ [][NextCrud]_vars

----------------------------------------------------------------------------
(* Primary keys: scaffold_pk, get_pk_value, get_one                        *)

KeyChars == {"a", CHAR_ESCAPE, CHAR_SEPARATOR}
KeyValues == TextOver(KeyChars, MaxKeyLen)
Key2Values == TextOver(KeyChars, MaxKey2Len)

\* model objects, as far as their key attributes go
PkModels == [k1 : KeyValues, k2 : Key2Values]

\* scaffold_pk: a tuple of attribute names for a multi-column key, the
\* attribute name alone for a single-column key
PrimaryKeys == {[tuple |-> TRUE, names |-> <<"k1", "k2">>],
                [tuple |-> TRUE, names |-> <<"k2", "k1">>],
                [tuple |-> FALSE, names |-> <<"k1">>]}

\* the key values of a model object, in the order of the key columns
KeyOf(pk, model) == [i \in 1..Len(pk.names) |-> model[pk.names[i]]]

get_pk_value_reversed(model) ==
    LET pk == view._primary_key
        n == Len(pk.names)
    IN IF pk.tuple
       THEN iterencode([i \in 1..n |-> model[pk.names[n + 1 - i]]])
       ELSE escape(model[pk.names[1]])

get_pk_value_raw(model) ==
    LET pk == view._primary_key
    IN IF pk.tuple
       THEN iterencode([i \in 1..Len(pk.names) |-> model[pk.names[i]]])
       ELSE model[pk.names[1]]

get_pk_value(model) ==
    LET pk == view._primary_key
    IN IF pk.tuple
       THEN iterencode([i \in 1..Len(pk.names) |-> model[pk.names[i]]])
       ELSE escape(model[pk.names[1]])

\* the key get_one looks up
get_one_key(id) == iterdecode(id)

\* ids that reach get_one from a URL without having been produced by
\* get_pk_value
RawIds == {<<"a">>, <<"a", CHAR_SEPARATOR, "a">>, <<CHAR_ESCAPE>>}

InitPk ==
    /\ op = "idle"
    /\ view \in {[BaseView EXCEPT !._primary_key = pk] : pk \in PrimaryKeys}
    /\ PkIdle
    /\ QueryIdle
    /\ ReqIdle
    /\ StoreIdle

GetPkValue(model) ==
    /\ op' = "get_pk_value"
    /\ pkModel' = model
    /\ token' = get_pk_value(model)
    /\ idArg' = <<>>
    /\ lookup' = <<>>
    /\ UNCHANGED <<view, scaffold, queryVars, reqVars>>

GetOne(id) ==
    /\ op' = "get_one"
    /\ idArg' = id
    /\ lookup' = get_one_key(id)
    /\ UNCHANGED <<view, scaffold, pkModel, token, queryVars, reqVars>>

NextPk ==
    \/ \E model \in PkModels : GetPkValue(model)
    \/ \E id \in RawIds \cup ({token} \ {NoToken}) : GetOne(id)

SpecPk == InitPk /\ [][NextPk]_vars

\* C7: for a multi-column primary key, get_pk_value packs the key values,
\* in the order of the key columns, into one text token, and decoding that
\* token in get_one gives back the same key values in the same order.
CompositeKeyRoundTrip ==
    (op = "get_one" /\ view._primary_key.tuple /\ idArg = token)
        => /\ lookup = KeyOf(view._primary_key, pkModel)
           /\ \A i \in 1..Len(token) : token[i] \in KeyChars

CompositeKeyRoundTripWitness ==
    /\ op = "get_one"
    /\ view._primary_key.tuple
    /\ idArg = token
    /\ pkModel.k1 = <<CHAR_SEPARATOR, "a">>
    /\ pkModel.k2 = <<CHAR_ESCAPE>>
    /\ lookup = KeyOf(view._primary_key, pkModel)

HasSpecialChar(value) ==
    \E i \in 1..Len(value) : value[i] \in {CHAR_ESCAPE, CHAR_SEPARATOR}

----------------------------------------------------------------------------
(* Scaffolding: the mapped classes and _get_field_with_path                *)

\* a column attribute (an InstrumentedAttribute whose property has columns)
ColAttr(owner, key) ==
    [kind |-> "column", owner |-> owner, key |-> key, target |-> owner]

RelParent == Rel("post", "parent", "post")
RelPosts == Rel("user", "posts", "post")
RelComments == Rel("post", "comments", "comment")

\* the attributes of the mapped classes; the view's model is Post
Schema ==
    {ColAttr("post", "id"), ColAttr("post", "title"), ColAttr("post", "author_id"),
     ColAttr("post", "base_id"), ColAttr("post", "fulltitle"),
     ColAttr("post", "link"), ColAttr("post", "ref"), ColAttr("post", "remote"),
     RelAuthor, RelParent, RelTags, RelComments,
     ColAttr("user", "name"), ColAttr("user", "fullname"), RelCity, RelPosts,
     ColAttr("city", "name"), ColAttr("tag", "name"), ColAttr("comment", "text")}

\* getattr(model, attribute): NoAttr stands for AttributeError
Getattr(model, attribute) ==
    IF \E a \in Schema : a.owner = model /\ <<a.key>> = attribute
    THEN CHOOSE a \in Schema : a.owner = model /\ <<a.key>> = attribute
    ELSE NoAttr

\* field.property.columns: a column_property may span several columns
PropColumns(attr) ==
    IF attr.kind # "column" THEN <<>>
    ELSE IF attr = ColAttr("user", "fullname")
        THEN <<Col("user", "first"), Col("user", "last")>>
    ELSE IF attr = ColAttr("post", "fulltitle")
        THEN <<Col("post", "first"), Col("post", "last")>>
    ELSE IF attr = ColAttr("post", "link")
        THEN <<Col("base", "link"), Col("post", "link")>>
    ELSE IF attr = ColAttr("post", "ref")
        THEN <<Col("post", "ref_id"), Col("base", "id")>>
    ELSE IF attr = ColAttr("post", "remote")
        THEN <<Col("base", "a"), Col("base", "b")>>
    ELSE <<Col(attr.owner, attr.key)>>

\* column.primary_key and column.foreign_keys
IsPrimaryKey(column) == column \in {Col("post", "id"), Col("post", "base_id")}
HasForeignKeys(column) ==
    column \in {Col("post", "author_id"), Col("post", "base_id"),
                Col("post", "ref_id")}

need_join_always(table) == TRUE

\* _need_join(table)
_need_join(table) == table \notin ModelTables

\* the loop over name.split('.'): (attr, path, raised)
RECURSIVE ResolveFrom(_, _, _, _, _)
ResolveFrom(model, attributes, i, path, attr) ==
    IF i > Len(attributes) THEN [attr |-> attr, path |-> path, raised |-> "none"]
    ELSE IF Getattr(model, attributes[i]) = NoAttr
        THEN [attr |-> NoAttr, path |-> path, raised |-> "AttributeError"]
    ELSE IF Getattr(model, attributes[i]).kind = "rel"
        THEN ResolveFrom(Getattr(model, attributes[i]).target, attributes, i + 1,
                         IF _need_join(Getattr(model, attributes[i]).target)
                         THEN Append(path, Getattr(model, attributes[i]))
                         ELSE path,
                         Getattr(model, attributes[i]))
    ELSE ResolveFrom(model, attributes, i + 1, path, Getattr(model, attributes[i]))

\* the branch for a name that is not a string: an attribute or column object
ResolveObject(attr) ==
    IF attr.kind \in {"column", "rel"}
    THEN IF PropColumns(attr) = <<>>
         THEN [attr |-> NoAttr, path |-> <<>>, raised |-> "Exception"]
         ELSE IF Len(PropColumns(attr)) > 1
         THEN [attr |-> NoAttr, path |-> <<>>, raised |-> "Exception"]
         ELSE [attr |-> attr,
               path |-> IF _need_join(PropColumns(attr)[1].table)
                        THEN <<Tbl(PropColumns(attr)[1].table)>> ELSE <<>>,
               raised |-> "none"]
    ELSE [attr |-> attr, path |-> <<>>, raised |-> "none"]

\* _get_field_with_path(name): a string name is a sequence of name tokens
\* and dots
_get_field_with_path(name) ==
    IF name.str
    THEN ResolveFrom("post", split(name.text, "."), 1, <<>>, NoAttr)
    ELSE ResolveObject(name.obj)

NameTokens == {"author", "city", "name", "title", "parent", "posts", "."}

\* a Column object, which is no InstrumentedAttribute
RawColumn == [kind |-> "rawcolumn", owner |-> "user", key |-> "name",
              target |-> "user"]

Names ==
    {[str |-> TRUE, text |-> t, obj |-> NoAttr] :
        t \in TextOver(NameTokens, MaxNameLen) \ {<<>>}}
    \cup {[str |-> FALSE, text |-> <<>>, obj |-> a] : a \in Schema \cup {RawColumn}}

GetFieldWithPath(name) ==
    /\ op = "idle"
    /\ \E r \in {_get_field_with_path(name)} :
          /\ scaffold' = [NoScaffold EXCEPT !.name = name, !.attr = r.attr,
                                            !.path = r.path]
          /\ propagated' = r.raised
    /\ op' = "_get_field_with_path"
    /\ UNCHANGED <<view, pkVars, queryVars, session, db, ret, flashes, logs,
                   doomed, calls, crudArgs>>

InitPath ==
    /\ op = "idle"
    /\ view = BaseView
    /\ PkIdle
    /\ QueryIdle
    /\ ReqIdle
    /\ StoreIdle

NextPath ==
    \/ op = "idle" /\ \E name \in Names : GetFieldWithPath(name)
    \/ EndRequest

SpecPath == InitPath /\ [][NextPath]_vars

----------------------------------------------------------------------------
(* Scaffolding: the constructor and the eager-join list                    *)

\* p.direction.name of a relationship property
Direction(p) ==
    IF p \in {RelAuthor, RelParent, RelCity} THEN "MANYTOONE"
    ELSE IF p = RelTags THEN "MANYTOMANY"
    ELSE "ONETOMANY"

\* self._get_model_iterator(): the properties of the view's model, in
\* mapper order
ModelProperties == view.properties

\* every relationship of the model, whatever its direction and target
AutoRelationsAll ==
    {ModelProperties[i].key : i \in {k \in 1..Len(ModelProperties) :
        ModelProperties[k].kind = "rel"}}

\* the set `relations` of scaffold_auto_joins
AutoRelations ==
    {ModelProperties[i].key : i \in {k \in 1..Len(ModelProperties) :
        /\ ModelProperties[k].kind = "rel"
        /\ ModelProperties[k].target # "post"
        /\ Direction(ModelProperties[k]) \in {"MANYTOONE", "MANYTOMANY"}}}

\* the loop over self._list_columns
RECURSIVE JoinedFrom(_, _)
JoinedFrom(i, joined) ==
    IF i > Len(view._list_columns) THEN joined
    ELSE JoinedFrom(i + 1,
            IF view._list_columns[i] \in AutoRelations
            THEN Append(joined, Getattr("post", <<view._list_columns[i]>>))
            ELSE joined)

\* scaffold_auto_joins()
scaffold_auto_joins ==
    IF ~view.column_auto_select_related THEN <<>> ELSE JoinedFrom(1, <<>>)

\* the configuration step of __init__: self._auto_joins
InitAutoJoins ==
    IF Falsy(view.column_select_related_list)
    THEN scaffold_auto_joins
    ELSE view.column_select_related_list.items

\* ModelView(model, session): the attributes the base constructor fills
\* (_list_columns among them) are those of the view as given
Construct ==
    /\ op = "idle"
    /\ view' = [view EXCEPT !._auto_joins = InitAutoJoins]
    /\ scaffold' = [NoScaffold EXCEPT !.value = InitAutoJoins]
    /\ op' = "__init__"
    /\ UNCHANGED <<pkVars, queryVars, reqVars>>

\* tools.filter_foreign_columns(base_table, columns): the columns of the
\* model's own table
IsOwnColumn(column) == column.table \in ModelTables
filter_foreign_columns(columns) == SelectSeq(columns, IsOwnColumn)

\* the column a property stands for in scaffold_list_columns: "skip" for a
\* property spanning several columns of the model's table, "IndexError"
\* when none of several columns is the model's
ListColumnOf(p) ==
    IF Len(PropColumns(p)) > 1
    THEN IF Len(filter_foreign_columns(PropColumns(p))) > 1
         THEN [is |-> "skip", column |-> ColNone]
         ELSE IF filter_foreign_columns(PropColumns(p)) = <<>>
         THEN [is |-> "IndexError", column |-> ColNone]
         ELSE [is |-> "column", column |-> filter_foreign_columns(PropColumns(p))[1]]
    ELSE [is |-> "column", column |-> PropColumns(p)[1]]

\* one iteration that keeps key columns
ListColumnStepKeepKeys(st, p) ==
    IF p.kind = "rel"
    THEN IF view.column_display_all_relations \/ Direction(p) = "MANYTOONE"
         THEN [st EXCEPT !.columns = Append(@, p.key)] ELSE st
    ELSE IF ListColumnOf(p).is = "skip" THEN st
    ELSE IF ListColumnOf(p).is = "IndexError" THEN [st EXCEPT !.raised = "IndexError"]
    ELSE [st EXCEPT !.columns = Append(@, p.key)]

\* one iteration of the loop of scaffold_list_columns
ListColumnStep(st, p) ==
    IF p.kind = "rel"
    THEN IF view.column_display_all_relations \/ Direction(p) = "MANYTOONE"
         THEN [st EXCEPT !.columns = Append(@, p.key)] ELSE st
    ELSE IF ListColumnOf(p).is = "skip" THEN st
    ELSE IF ListColumnOf(p).is = "IndexError" THEN [st EXCEPT !.raised = "IndexError"]
    ELSE IF HasForeignKeys(ListColumnOf(p).column) THEN st
    ELSE IF ~view.column_display_pk /\ IsPrimaryKey(ListColumnOf(p).column) THEN st
    ELSE [st EXCEPT !.columns = Append(@, p.key)]

RECURSIVE ListColumnLoop(_, _)
ListColumnLoop(st, i) ==
    IF i > Len(ModelProperties) \/ st.raised # "none" THEN st
    ELSE ListColumnLoop(ListColumnStep(st, ModelProperties[i]), i + 1)

\* scaffold_list_columns()
scaffold_list_columns == ListColumnLoop([columns |-> <<>>, raised |-> "none"], 1)

ScaffoldListColumns ==
    /\ op = "idle"
    /\ scaffold' = [NoScaffold EXCEPT !.value =
                        IF scaffold_list_columns.raised = "none"
                        THEN scaffold_list_columns.columns ELSE <<>>]
    /\ propagated' = scaffold_list_columns.raised
    /\ op' = "scaffold_list_columns"
    /\ UNCHANGED <<view, pkVars, queryVars, session, db, ret, flashes, logs,
                   doomed, calls, crudArgs>>

\* the mappers of up to MaxProps properties
PropertyLists ==
    {SelectSeq(PropertyUniverse, LAMBDA p : p \in chosen) :
        chosen \in {c \in SUBSET {PropertyUniverse[i] : i \in 1..Len(PropertyUniverse)} :
                        Cardinality(c) <= MaxProps}}

ColumnViews ==
    {[BaseView EXCEPT !.properties = ps,
                      !.column_display_all_relations = r,
                      !.column_display_pk = k] :
        ps \in PropertyLists, r \in BOOLEAN, k \in BOOLEAN}

\* one iteration that keeps foreign-key columns
SortableStepKeepKeys(columns, p) ==
    IF p.kind # "column" THEN columns
    ELSE IF Len(PropColumns(p)) > 1 THEN columns
    ELSE IF ~view.column_display_pk /\ IsPrimaryKey(PropColumns(p)[1]) THEN columns
    ELSE DictSet(columns, <<p.key>>, PropColumns(p)[1])

\* one iteration of the loop of scaffold_sortable_columns; the key of an
\* entry is the text of the name
SortableStep(columns, p) ==
    IF p.kind # "column" THEN columns
    ELSE IF Len(PropColumns(p)) > 1 THEN columns
    ELSE IF HasForeignKeys(PropColumns(p)[1]) THEN columns
    ELSE IF ~view.column_display_pk /\ IsPrimaryKey(PropColumns(p)[1]) THEN columns
    ELSE DictSet(columns, <<p.key>>, PropColumns(p)[1])

RECURSIVE SortableLoop(_, _)
SortableLoop(columns, i) ==
    IF i > Len(ModelProperties) THEN columns
    ELSE SortableLoop(SortableStep(columns, ModelProperties[i]), i + 1)

\* scaffold_sortable_columns()
scaffold_sortable_columns == SortableLoop(EmptyDict, 1)

\* an entry of column_sortable_list: a name, an attribute, or a
\* (column_name, name or attribute) tuple
StrEntry(text) ==
    [is |-> "str", label |-> <<>>,
     name |-> [str |-> TRUE, text |-> text, obj |-> NoAttr]]
AttrEntry(attr) ==
    [is |-> "attr", label |-> <<>>,
     name |-> [str |-> FALSE, text |-> <<>>, obj |-> attr]]
TupleEntry(label, entry) == [is |-> "tuple", label |-> label, name |-> entry.name]

\* str(c) of an attribute: Class.key
StrOf(attr) ==
    <<IF attr.owner = "post" THEN "Post" ELSE IF attr.owner = "user" THEN "User"
      ELSE attr.owner, ".", attr.key>>

\* column_name of an entry
ColumnName(c) ==
    IF c.is = "tuple" THEN c.label
    ELSE IF c.is = "attr" THEN StrOf(c.name.obj)
    ELSE c.name.text

\* result[column_name] = column, and the join path when there is one
SortableEntry(st, column_name, r) ==
    IF r.raised # "none" THEN [st EXCEPT !.raised = r.raised]
    ELSE [st EXCEPT !.result = DictSet(@, column_name, r.attr),
                    !.joins = IF r.path # <<>> THEN DictSet(@, column_name, r.path)
                              ELSE @]

\* the loop over self.column_sortable_list
RECURSIVE SortableListLoop(_, _)
SortableListLoop(st, i) ==
    IF i > Len(view.column_sortable_list.items) \/ st.raised # "none" THEN st
    ELSE SortableListLoop(
            SortableEntry(st, ColumnName(view.column_sortable_list.items[i]),
                _get_field_with_path(view.column_sortable_list.items[i].name)),
            i + 1)

\* get_sortable_columns(): (result, _sortable_joins, raised)
get_sortable_columns ==
    IF view.column_sortable_list.none
    THEN [result |-> scaffold_sortable_columns, joins |-> EmptyDict,
          raised |-> "none"]
    ELSE SortableListLoop([result |-> EmptyDict, joins |-> EmptyDict,
                           raised |-> "none"], 1)

ScaffoldSortableColumns ==
    /\ op = "idle"
    /\ scaffold' = [NoScaffold EXCEPT !.value = scaffold_sortable_columns]
    /\ op' = "scaffold_sortable_columns"
    /\ UNCHANGED <<view, pkVars, queryVars, reqVars>>

GetSortableColumns ==
    /\ op = "idle"
    /\ \E r \in {get_sortable_columns} :
          /\ view' = [view EXCEPT !._sortable_joins = r.joins]
          /\ scaffold' = [NoScaffold EXCEPT !.value = r.result]
          /\ propagated' = r.raised
    /\ op' = "get_sortable_columns"
    /\ UNCHANGED <<pkVars, queryVars, session, db, ret, flashes, logs,
                   doomed, calls, crudArgs>>

SortLists ==
    {NoneList, ListOf(<<>>),
     ListOf(<<StrEntry(<<"title">>), StrEntry(<<"author", ".", "name">>)>>),
     ListOf(<<TupleEntry(<<"writer">>, AttrEntry(ColAttr("user", "name"))),
              AttrEntry(ColAttr("post", "title"))>>),
     ListOf(<<StrEntry(<<"author_id">>), StrEntry(<<"nothing">>)>>)}

SortViews ==
    {[v EXCEPT !.column_sortable_list = l] : v \in ColumnViews, l \in SortLists}

ListColumnNames == {"title", "author", "parent", "tags", "comments"}

AutoJoinViews ==
    {[BaseView EXCEPT !._auto_joins = <<>>,
                      !.column_select_related_list = l,
                      !.column_auto_select_related = b,
                      !._list_columns = c] :
        l \in {NoneList, ListOf(<<>>), ListOf(<<RelComments>>),
               ListOf(<<RelTags, RelParent>>)},
        b \in BOOLEAN,
        c \in TextOver(ListColumnNames, MaxListColumns)}

InitScaffold ==
    /\ op = "idle"
    /\ view \in AutoJoinViews
    /\ PkIdle
    /\ QueryIdle
    /\ ReqIdle
    /\ StoreIdle

NextScaffold ==
    \/ Construct
    \/ EndRequest

SpecScaffold == InitScaffold /\ [][NextScaffold]_vars

InitColumns ==
    /\ op = "idle"
    /\ view \in SortViews
    /\ PkIdle
    /\ QueryIdle
    /\ ReqIdle
    /\ StoreIdle

NextColumns ==
    \/ ScaffoldListColumns
    \/ ScaffoldSortableColumns
    \/ GetSortableColumns
    \/ EndRequest

SpecColumns == InitColumns /\ [][NextColumns]_vars

----------------------------------------------------------------------------
(* Scaffolding: init_search                                                *)

\* the body of the loop over self.column_searchable_list
SearchableStep(st, r) ==
    IF r.raised # "none" THEN [st EXCEPT !.raised = r.raised]
    ELSE IF r.attr = NoAttr \/ PropColumns(r.attr) = <<>>
    THEN [st EXCEPT !.raised = "Exception"]
    ELSE [st EXCEPT !.fields =
            @ \o [c \in 1..Len(PropColumns(r.attr)) |->
                    SearchField(PropColumns(r.attr)[c], r.path)]]

RECURSIVE SearchableLoop(_, _)
SearchableLoop(st, i) ==
    IF i > Len(view.column_searchable_list.items) \/ st.raised # "none" THEN st
    ELSE SearchableLoop(
            SearchableStep(st,
                _get_field_with_path(view.column_searchable_list.items[i])),
            i + 1)

\* init_search() starting from the list `fields`: (fields, result, raised)
InitSearchFrom(fields) ==
    IF ~Falsy(view.column_searchable_list)
    THEN SearchableLoop([fields |-> fields, raised |-> "none",
                         result |-> TRUE], 1)
    ELSE [fields |-> view._search_fields, raised |-> "none", result |-> FALSE]

\* init_search() that keeps the entries it has
init_search_appending == InitSearchFrom(view._search_fields)

\* init_search(): self._search_fields = [] and the loop
init_search == InitSearchFrom(<<>>)

InitSearch ==
    /\ op = "idle"
    /\ view' = [view EXCEPT !._search_fields = init_search.fields]
    /\ scaffold' = [NoScaffold EXCEPT !.name = [before |-> view._search_fields],
                                      !.value = init_search.result]
    /\ propagated' = init_search.raised
    /\ op' = "init_search"
    /\ UNCHANGED <<pkVars, queryVars, session, db, ret, flashes, logs,
                   doomed, calls, crudArgs>>

StrName(text) == [str |-> TRUE, text |-> text, obj |-> NoAttr]
ObjName(attr) == [str |-> FALSE, text |-> <<>>, obj |-> attr]

SearchableNames ==
    {StrName(<<"title">>), StrName(<<"author", ".", "name">>),
     StrName(<<"author", ".", "city", ".", "name">>),
     StrName(<<"author", ".", "fullname">>), StrName(<<"author">>),
     StrName(<<"nothing">>),
     ObjName(ColAttr("user", "name")), ObjName(ColAttr("post", "title")),
     ObjName(ColAttr("user", "fullname"))}

SearchableViews ==
    {[BaseView EXCEPT !.column_searchable_list = l, !._search_fields = f] :
        l \in {NoneList} \cup {ListOf(t) : t \in TextOver(SearchableNames, MaxSearchable)},
        f \in {<<>>, <<SearchField(ColTitle, <<>>)>>}}

InitSearchable ==
    /\ op = "idle"
    /\ view \in SearchableViews
    /\ PkIdle
    /\ QueryIdle
    /\ ReqIdle
    /\ StoreIdle

NextSearchable ==
    \/ InitSearch
    \/ EndRequest

SpecSearchable == InitSearchable /\ [][NextSearchable]_vars

----------------------------------------------------------------------------
(* Model actions: is_action_allowed                                        *)

ActionNames == {"delete", "export", "edit", "approve"}

\* BaseModelView.is_action_allowed(name): the base view's answer, one of the
\* answers `base` a base view may give
SuperIsActionAllowed(base, name) == base[name]

is_action_allowed_base(base, name) == SuperIsActionAllowed(base, name)

\* is_action_allowed(name)
is_action_allowed(base, name) ==
    IF name = "delete" /\ ~view.can_delete THEN FALSE
    ELSE SuperIsActionAllowed(base, name)

IsActionAllowed(base, name) ==
    /\ op = "idle"
    /\ scaffold' = [NoScaffold EXCEPT !.name = [action |-> name, base |-> base],
                                      !.value = is_action_allowed(base, name)]
    /\ op' = "is_action_allowed"
    /\ UNCHANGED <<view, pkVars, queryVars, reqVars>>

ActionViews == {[BaseView EXCEPT !.can_delete = b] : b \in BOOLEAN}

InitActions ==
    /\ op = "idle"
    /\ view \in ActionViews
    /\ PkIdle
    /\ QueryIdle
    /\ ReqIdle
    /\ StoreIdle

NextActions ==
    \/ op = "idle" /\ \E base \in [ActionNames -> BOOLEAN], name \in ActionNames :
                          IsActionAllowed(base, name)
    \/ EndRequest

SpecActions == InitActions /\ [][NextActions]_vars

----------------------------------------------------------------------------
(* pyramid_admin.json: dumps and htmlsafe_dumps                            *)

\* JSON values: a string, a list, a dictionary with string keys, or a
\* scalar written by its literal
JStr(text) == [type |-> "str", text |-> text, items |-> <<>>, pairs |-> <<>>]
JList(items) == [type |-> "list", text |-> <<>>, items |-> items, pairs |-> <<>>]
JDict(pairs) == [type |-> "dict", text |-> <<>>, items |-> <<>>, pairs |-> pairs]
JLiteral(text) == [type |-> "literal", text |-> text, items |-> <<>>, pairs |-> <<>>]

\* the JSON encoder's string escapes
EncodeChar(c) ==
    IF c = "\"" THEN <<"\\", "\"">>
    ELSE IF c = "\\" THEN <<"\\", "\\">>
    ELSE <<c>>

EncodeString(text) ==
    <<"\"">> \o Concat([i \in 1..Len(text) |-> EncodeChar(text[i])]) \o <<"\"">>

\* ', '.join(parts)
RECURSIVE JoinComma(_)
JoinComma(parts) ==
    IF parts = <<>> THEN <<>>
    ELSE IF Len(parts) = 1 THEN parts[1]
    ELSE parts[1] \o <<",", " ">> \o JoinComma(Tail(parts))

\* _json.dumps(obj, sort_keys=True, cls=JSONEncoder): the pairs of a
\* dictionary are held in key order
RECURSIVE JsonText(_)
JsonText(obj) ==
    IF obj.type = "str" THEN EncodeString(obj.text)
    ELSE IF obj.type = "literal" THEN obj.text
    ELSE IF obj.type = "list"
        THEN <<"[">> \o JoinComma([i \in 1..Len(obj.items) |-> JsonText(obj.items[i])])
             \o <<"]">>
    ELSE <<"{">>
         \o JoinComma([i \in 1..Len(obj.pairs) |->
                EncodeString(obj.pairs[i][1]) \o <<":", " ">>
                    \o JsonText(obj.pairs[i][2])])
         \o <<"}">>

\* dumps(obj, **kwargs): text, or bytes when an encoding is given; on
\* Python 2 the json module returns a byte string for ASCII output
dumps(obj, encoding, py2) ==
    [text |-> JsonText(obj),
     is |-> IF py2 \/ encoding # "None" THEN "bytes" ELSE "text"]

\* the table without the entry for the single quote
translation_table_without_quote(c) ==
    IF c = "<" THEN <<"\\", "u", "0", "0", "3", "c">>
    ELSE IF c = ">" THEN <<"\\", "u", "0", "0", "3", "e">>
    ELSE IF c = "&" THEN <<"\\", "u", "0", "0", "2", "6">>
    ELSE <<c>>

\* _translation_table, applied to one character
_translation_table(c) ==
    IF c = "<" THEN <<"\\", "u", "0", "0", "3", "c">>
    ELSE IF c = ">" THEN <<"\\", "u", "0", "0", "3", "e">>
    ELSE IF c = "&" THEN <<"\\", "u", "0", "0", "2", "6">>
    ELSE IF c = "'" THEN <<"\\", "u", "0", "0", "2", "7">>
    ELSE <<c>>

\* text.translate(_translation_table)
translate(text) == Concat([i \in 1..Len(text) |-> _translation_table(text[i])])

\* htmlsafe_dumps(obj, **kwargs): translate with a dictionary works on text
\* only and raises TypeError on a byte string
htmlsafe_dumps(obj, encoding, py2) ==
    IF dumps(obj, encoding, py2).is = "text"
    THEN [rv |-> translate(dumps(obj, encoding, py2).text), raised |-> "none"]
    ELSE [rv |-> <<>>, raised |-> "TypeError"]

JsonChars == {"<", ">", "&", "'", "\"", "\\", "a"}

JsonStrings == {JStr(t) : t \in TextOver(JsonChars, MaxStrLen)}

JsonLeaves ==
    {JStr(t) : t \in TextOver(JsonChars, 1)}
    \cup {JLiteral(<<"n", "u", "l", "l">>), JLiteral(<<"7">>)}

JsonObjects ==
    JsonStrings
    \cup JsonLeaves
    \cup {JList(l) : l \in TextOver(JsonLeaves, 2)}
    \cup {JDict(<<<<k, v>>>>) : k \in TextOver(JsonChars, 1), v \in JsonLeaves}
    \cup {JDict(<<<<<<"&">>, v>>, <<<<"a">>, JList(<<v>>)>>>>) : v \in JsonLeaves}

HtmlsafeDumps(obj, encoding, py2) ==
    /\ op = "idle"
    /\ \E r \in {htmlsafe_dumps(obj, encoding, py2)} :
          /\ scaffold' = [NoScaffold EXCEPT
                            !.name = [obj |-> obj, encoding |-> encoding, py2 |-> py2],
                            !.value = r.rv]
          /\ propagated' = r.raised
    /\ op' = "htmlsafe_dumps"
    /\ UNCHANGED <<view, pkVars, queryVars, session, db, ret, flashes, logs,
                   doomed, calls, crudArgs>>

NextJson ==
    \/ op = "idle" /\ \E obj \in JsonObjects, encoding \in {"None", "utf-8"},
                         py2 \in BOOLEAN : HtmlsafeDumps(obj, encoding, py2)
    \/ EndRequest

SpecJson == InitPath /\ [][NextJson]_vars

----------------------------------------------------------------------------
(* pyramid_admin._compat: secure_filename                                  *)

AsciiLower == <<"a", "b", "c", "d", "e", "f", "g", "h", "i", "j", "k", "l", "m",
                "n", "o", "p", "q", "r", "s", "t", "u", "v", "w", "x", "y", "z">>

AsciiUpper == <<"A", "B", "C", "D", "E", "F", "G", "H", "I", "J", "K", "L", "M",
                "N", "O", "P", "Q", "R", "S", "T", "U", "V", "W", "X", "Y", "Z">>

AsciiDigits == {"0", "1", "2", "3", "4", "5", "6", "7", "8", "9"}

Range(f) == {f[i] : i \in DOMAIN f}

\* the characters the pattern [^A-Za-z0-9_.-] leaves alone
FilenameChar(c) ==
    c \in Range(AsciiLower) \cup Range(AsciiUpper) \cup AsciiDigits \cup {"_", ".", "-"}

_windows_device_files ==
    <<<<"C", "O", "N">>, <<"A", "U", "X">>, <<"C", "O", "M", "1">>,
      <<"C", "O", "M", "2">>, <<"C", "O", "M", "3">>, <<"C", "O", "M", "4">>,
      <<"L", "P", "T", "1">>, <<"L", "P", "T", "2">>, <<"L", "P", "T", "3">>,
      <<"P", "R", "N">>, <<"N", "U", "L">>>>

\* normalize('NFKD', filename).encode('ascii', 'ignore'): a letter with a
\* cedilla decomposes into the letter and a combining mark, which is
\* dropped with every other character outside ASCII
NormalizeAscii(filename) ==
    Concat([i \in 1..Len(filename) |->
        IF filename[i] = "ç" THEN <<"c">>
        ELSE IF filename[i] = "ß" THEN <<>>
        ELSE <<filename[i]>>])

\* os.path.sep and os.path.altsep; "" stands for None
PathSeps(os_name) == IF os_name = "nt" THEN <<"\\", "/">> ELSE <<"/", "">>

\* filename.replace(sep, ' ')
ReplaceSep(filename, sep) ==
    [i \in 1..Len(filename) |-> IF filename[i] = sep THEN " " ELSE filename[i]]

\* for sep in os.path.sep, os.path.altsep: if sep: replace
ReplaceSeps(filename, os_name) ==
    ReplaceSep(ReplaceSep(filename, PathSeps(os_name)[1]), PathSeps(os_name)[2])

\* '_'.join(filename.split()): runs of whitespace, dropped at both ends,
\* become one underscore between words
RECURSIVE JoinWords(_, _)
JoinWords(filename, inWord) ==
    IF filename = <<>> THEN <<>>
    ELSE IF Head(filename) \in {" ", "\t"}
        THEN IF inWord /\ \E i \in 1..Len(filename) : filename[i] \notin {" ", "\t"}
             THEN <<"_">> \o JoinWords(Tail(filename), FALSE)
             ELSE JoinWords(Tail(filename), FALSE)
    ELSE <<Head(filename)>> \o JoinWords(Tail(filename), TRUE)

\* _filename_ascii_strip_re.sub('', text)
_filename_ascii_strip_re(text) == SelectSeq(text, FilenameChar)

RECURSIVE lstrip(_, _)
lstrip(text, chars) ==
    IF text # <<>> /\ Head(text) \in chars THEN lstrip(Tail(text), chars) ELSE text

RECURSIVE rstrip(_, _)
rstrip(text, chars) ==
    IF text # <<>> /\ text[Len(text)] \in chars
    THEN rstrip(SubSeq(text, 1, Len(text) - 1), chars)
    ELSE text

\* text.strip(chars)
strip(text, chars) == rstrip(lstrip(text, chars), chars)

\* text.upper()
upper(text) ==
    [i \in 1..Len(text) |->
        IF \E k \in 1..26 : AsciiLower[k] = text[i]
        THEN AsciiUpper[CHOOSE k \in 1..26 : AsciiLower[k] = text[i]]
        ELSE text[i]]

\* text.split('.')[0]
RECURSIVE BeforeDot(_)
BeforeDot(text) ==
    IF text = <<>> \/ Head(text) = "." THEN <<>>
    ELSE <<Head(text)>> \o BeforeDot(Tail(text))

\* the cleaning without the final strip
CleanName(filename, os_name) ==
    _filename_ascii_strip_re(
        JoinWords(ReplaceSeps(NormalizeAscii(filename), os_name), FALSE))

\* cleaning that strips the leading dots and underscores only
StrippedLeft(filename, os_name) == lstrip(CleanName(filename, os_name), {".", "_"})

\* str(...).strip('._')
Stripped(filename, os_name) == strip(CleanName(filename, os_name), {".", "_"})

\* the device-file rule applied to a stripped name
DeviceSafe(name, os_name) ==
    IF os_name = "nt" /\ name # <<>>
       /\ upper(BeforeDot(name)) \in Range(_windows_device_files)
    THEN <<"_">> \o name
    ELSE name

secure_filename(filename, os_name) == DeviceSafe(Stripped(filename, os_name), os_name)

FileChars == {"c", "O", "N", "1", ".", "_", "-", "/", "\\", " ", "ç", "ß", "~"}

\* every short filename, and longer ones around a device name
Filenames ==
    TextOver(FileChars, MaxFileLen)
    \cup {<<"c", "o", "n", ".", "t", "x", "t">>, <<"_", "C", "O", "N">>,
          <<".", ".", "/", "N", "U", "L", ".">>, <<"l", "p", "t", "1", " ", " ", "a">>,
          <<"\\", "a", "u", "x", "\t", ".", "b", "_">>}

SecureFilename(filename, os_name) ==
    /\ op = "idle"
    /\ scaffold' = [NoScaffold EXCEPT
                      !.name = [filename |-> filename, os_name |-> os_name],
                      !.value = secure_filename(filename, os_name)]
    /\ op' = "secure_filename"
    /\ UNCHANGED <<view, pkVars, queryVars, reqVars>>

NextFilename ==
    \/ op = "idle" /\ \E filename \in Filenames, os_name \in {"posix", "nt"} :
                         SecureFilename(filename, os_name)
    \/ EndRequest

SpecFilename == InitPath /\ [][NextFilename]_vars

----------------------------------------------------------------------------
(* Properties of query building                                            *)

SearchColumns == {ColTitle, ColUserName, ColCityName}
RowValues == {<<"a">>, <<"A", "b">>, <<"b">>, NULL}

\* a row of the joined result, as far as the searchable columns go
Rows == [SearchColumns -> RowValues]

\* does a row satisfy one query.filter(...) call of the search
ClauseHolds(c, row) ==
    IF c.connective = "or_"
    THEN \E k \in 1..Len(c.clauses) :
            ilike(row[c.clauses[k].on.column], c.clauses[k].ilike)
    ELSE \A k \in 1..Len(c.clauses) :
            ilike(row[c.clauses[k].on.column], c.clauses[k].ilike)

\* successive filter calls on a query narrow it: a row passes if it
\* satisfies each of them
RowPassesSearch(q, row) ==
    \A i \in 1..Len(q.calls) :
        q.calls[i].call = "filter" => ClauseHolds(q.calls[i], row)

\* the non-empty terms of a search string: its maximal runs of characters
\* other than the space
NonEmptyTerms(s) ==
    {SubSeq(s, i, j) : <<i, j>> \in
        {ij \in (1..Len(s)) \X (1..Len(s)) :
            /\ ij[1] <= ij[2]
            /\ \A k \in ij[1]..ij[2] : s[k] # " "
            /\ ij[1] = 1 \/ s[ij[1] - 1] = " "
            /\ ij[2] = Len(s) \/ s[ij[2] + 1] = " "}}

TermMatches(term, value) == ilike(value, parse_like_term(term))

RowMatchesEveryTerm(search, row) ==
    \A term \in NonEmptyTerms(search) :
        \E f \in 1..Len(view._search_fields) :
            TermMatches(term, row[view._search_fields[f].column])

\* C1: a row passes get_list's search iff every non-empty term of the
\* search string matches at least one of the view's searchable columns in
\* that row (OR across the columns of a term, AND across the terms).
SearchComposition ==
    (op = "get_list" /\ propagated = "none" /\ view._search_supported)
        => \A row \in Rows :
              RowPassesSearch(query, row) <=> RowMatchesEveryTerm(listArgs.search, row)

SearchCompositionWitness ==
    /\ op = "get_list"
    /\ propagated = "none"
    /\ view._search_fields = <<SearchField(ColTitle, <<>>),
                               SearchField(ColUserName, <<RelAuthor>>)>>
    /\ listArgs.search = <<"a", " ", " ", "B">>
    /\ RowPassesSearch(query, [c \in SearchColumns |->
            IF c = ColTitle THEN <<"b">> ELSE <<"a">>])
    /\ ~RowPassesSearch(query, [c \in SearchColumns |->
            IF c = ColCityName THEN <<"A", "b">> ELSE <<"a">>])

ItemsJoined(q) == {q.calls[i].item : i \in {k \in 1..Len(q.calls) : IsJoin(q.calls[k])}}

JoinedOnce(q, j) ==
    \A key \in PathKeys :
        Cardinality(JoinsFor(q, key)) = IF key \in DOMAIN j THEN 1 ELSE 0

\* C2: on a query whose _apply_path_joins calls share one joins
\* dictionary, every (inner_join, item) key has exactly one join if it is
\* recorded in the dictionary and none otherwise, so a recorded key is never
\* joined again; in get_list, where every path is joined as an outer join,
\* no relation is joined by two of these calls.
PathJoinedOnce ==
    /\ JoinedOnce(query, joins)
    /\ JoinedOnce(count_query, count_joins)
    /\ op = "get_list" =>
          \A item \in PathItems :
              Cardinality({i \in 1..Len(query.calls) :
                  IsJoin(query.calls[i]) /\ query.calls[i].item = item}) <= 1

PathJoinedOnceWitness ==
    /\ op = "_apply_path_joins"
    /\ njoincalls = 3
    /\ Len(query.calls) = 2
    /\ ItemsJoined(query) = {RelAuthor, RelCity}
    /\ PathKey(FALSE, RelCity) \in DOMAIN joins

\* C3 as stated: get_list's search, filter and sort paths add no join to a
\* table that the base query already joins (an entity of
\* query._join_entities).
EagerLoadedNotRejoined ==
    op = "get_list" =>
        \A i \in 1..Len(query.calls) :
            IsJoin(query.calls[i]) =>
                query.calls[i].item.target \notin view.join_entities

\* positions of the flt.apply calls of a query, in call order
ApplyPositions(q) ==
    SelectSeq([i \in 1..Len(q.calls) |-> i], LAMBDA i : q.calls[i].call = "apply")

RecordedPath(flt) ==
    IF flt.sqla /\ flt.column \in DOMAIN view._filter_joins
    THEN view._filter_joins[flt.column] ELSE <<>>

\* C9: _apply_filters applies each listed filter once to the main query,
\* in list order, with the value its own clean made of its own raw value,
\* after the outer joins of its recorded join path; the applications follow
\* one another on the same query, which is their conjunction.
FiltersAppliedInOrder ==
    (op = "get_list" /\ propagated = "none" /\ listArgs.filters # <<>>)
        => LET pos == ApplyPositions(query)
               filters == listArgs.filters
           IN /\ Len(pos) = Len(filters)
              /\ \A k \in 1..Len(filters) :
                    LET c == query.calls[pos[k]]
                        idx == filters[k][1]
                    IN /\ c.flt = idx
                       /\ c.value = [cleaned_by |-> idx, raw |-> filters[k][3]]
                       /\ \A n \in 1..Len(RecordedPath(view._filters[idx])) :
                             \E i \in 1..(pos[k] - 1) :
                                /\ query.calls[i].call = "outerjoin"
                                /\ query.calls[i].item =
                                      RecordedPath(view._filters[idx])[n]

FiltersAppliedInOrderWitness ==
    /\ op = "get_list"
    /\ propagated = "none"
    /\ listArgs.filters = <<<<2, "flt", <<"a">>>>, <<1, "flt", <<"b">>>>>>
    /\ Len(ApplyPositions(query)) = 2
    /\ query.calls[1].call = "outerjoin"

----------------------------------------------------------------------------
(* Properties of create / update / delete                                  *)

DirectOps == {"create_model", "update_model", "delete_model"}

\* the calls inside the nested transaction scope of the last operation
ScopeOf(o) ==
    IF o = "create_model" THEN CreateScope
    ELSE IF o = "update_model" THEN UpdateScope
    ELSE IF o = "delete_model" THEN DeleteScope
    ELSE {}

CallsTo(fns) == {i \in 1..Len(calls) : calls[i].fn \in fns}

FailureText(o) ==
    IF o = "create_model" THEN "Failed to create record"
    ELSE IF o = "update_model" THEN "Failed to update record"
    ELSE "Failed to delete record"

\* C4: when a call inside the nested transaction scope of create_model,
\* update_model or delete_model raises, the nested transaction is rolled
\* back (the session is as it was before the call), the enclosing
\* transaction is doomed, and the operation returns False.
ScopeFailureRollsBack ==
    (op \in DirectOps /\ crudArgs.fault.at \in ScopeOf(op))
        => /\ ret = "False"
           /\ doomed
           /\ propagated = "none"
           /\ session = db
           /\ calls[Len(calls)].fn = "nested.rollback"

ScopeFailureRollsBackWitness ==
    /\ op = "delete_model"
    /\ crudArgs.fault = [at |-> "session.flush", exc |-> "Exception"]
    /\ CallsTo({"session.delete"}) # {}
    /\ session = db
    /\ doomed
    /\ ret = "False"

\* C5: when create_model, update_model or delete_model hits an
\* IntegrityError in its try block, the error does not leave the operation:
\* handle_view_exception flashes 'Integrity error' and reports it handled,
\* so neither the 'Failed to ...' flash nor a log entry is made, and the
\* operation returns False.
IntegrityErrorHandled ==
    (/\ op \in DirectOps
     /\ crudArgs.fault.exc = "IntegrityError"
     /\ crudArgs.fault.at \in ScopeOf(op) \cup {"session.begin_nested"})
        => /\ propagated = "none"
           /\ flashes = <<[text |-> "Integrity error", count |-> -1]>>
           /\ logs = <<>>
           /\ ret = "False"

IntegrityErrorHandledWitness ==
    /\ op = "create_model"
    /\ crudArgs.fault = [at |-> "session.flush", exc |-> "IntegrityError"]
    /\ flashes = <<[text |-> "Integrity error", count |-> -1]>>
    /\ logs = <<>>
    /\ ret = "False"

\* the exception planted in the last operation was raised: the call it is
\* planted at was made
FaultRaised(fault) == CallsTo({fault.at}) # {}

\* C6 as stated: an exception other than an integrity violation raised at
\* any point of a create, update or delete operation (the after_model_change
\* / after_model_delete hooks and the bulk delete action included) is logged
\* and flashed, and does not leave the operation.
NoExceptionEscapes ==
    /\ (op \in DirectOps /\ crudArgs.fault.exc = "Exception")
          => /\ propagated = "none"
             /\ logs # <<>>
             /\ flashes # <<>>
    /\ (op = "action_delete" /\ crudArgs.fault.exc = "Exception"
            /\ FaultRaised(crudArgs.fault))
          => /\ propagated = "none"
             /\ logs # <<>>
             /\ flashes # <<>>

\* C6 (amended): an exception other than an integrity violation raised in
\* the try block of create_model, update_model or delete_model is logged
\* and flashed as 'Failed to ...', and the operation returns False without
\* raising; an exception raised by after_model_change / after_model_delete
\* leaves the operation, and so does one that reaches the handler of
\* action_delete, with nothing flashed or logged for it.
ScopeExceptionReported ==
    /\ (/\ op \in DirectOps
        /\ crudArgs.fault.exc = "Exception"
        /\ crudArgs.fault.at \in ScopeOf(op) \cup {"session.begin_nested"})
          => /\ propagated = "none"
             /\ logs = <<FailureText(op)>>
             /\ flashes = <<[text |-> FailureText(op), count |-> -1]>>
             /\ ret = "False"
    /\ (op \in DirectOps /\ crudArgs.fault.at \in AfterHooks)
          => /\ propagated = crudArgs.fault.exc
             /\ logs = <<>>
             /\ flashes = <<>>
             /\ ~doomed
    /\ (op = "action_delete" /\ crudArgs.fault.exc = "Exception"
            /\ FaultRaised(crudArgs.fault))
          => /\ propagated = "Exception"
             /\ \A i \in 1..Len(flashes) :
                   flashes[i].text \notin {"Failed to delete records",
                                           "records were successfully deleted"}

ScopeExceptionReportedWitness ==
    /\ op = "update_model"
    /\ crudArgs.fault = [at |-> "_on_model_change", exc |-> "Exception"]
    /\ logs = <<"Failed to update record">>
    /\ propagated = "none"
    /\ ret = "False"

\* C10: with fast_mass_delete set, action_delete deletes the selected rows
\* with one bulk DELETE on the id query and never calls delete_model, so no
\* on_model_delete / after_model_delete hook and no nested transaction runs;
\* the count it reports is the row count of the bulk statement.
FastMassDelete ==
    (op = "action_delete" /\ view.fast_mass_delete)
        => /\ CallsTo({"delete_model", "on_model_delete", "after_model_delete",
                       "session.begin_nested", "session.delete", "query.all"}) = {}
           /\ Cardinality(CallsTo({"query.delete"})) =
                 IF crudArgs.fault.at = "get_query_for_ids" THEN 0 ELSE 1
           /\ crudArgs.fault = NoFault =>
                 /\ flashes = <<[text |-> "records were successfully deleted",
                                 count |-> Cardinality(crudArgs.ids \cap RowIds(db))]>>
                 /\ session = {r \in db : r[1] \notin crudArgs.ids}

FastMassDeleteWitness ==
    /\ op = "action_delete"
    /\ view.fast_mass_delete
    /\ crudArgs.fault = NoFault
    /\ crudArgs.ids = ObjIds
    /\ Cardinality(RowIds(db)) >= 2
    /\ session = {}
    /\ flashes[1].count = Cardinality(RowIds(db))

\* the calls of delete_model on model m in the last operation
DeleteModelCalls(m) ==
    {i \in 1..Len(calls) : calls[i].fn = "delete_model" /\ calls[i].obj = m}

\* delete_model(m) returns True under the fault planned for m
ReturnsTrue(m) == delete_model(Frame(db), m, crudArgs.plan[m]).ret = "True"

\* an exception leaves the loop of action_delete before it is through: the
\* id query or query.all() raises, or a delete_model call raises
LoopLeft ==
    \/ crudArgs.fault.at \in {"get_query_for_ids", "query.all"}
    \/ \E m \in DOMAIN crudArgs.plan : crudArgs.plan[m].at \in AfterHooks

----------------------------------------------------------------------------
(* Properties of the search terms                                          *)

Whitespace == {" ", "\t"}

\* the maximal runs of characters of s that are not in seps, in order
RunStarts(s, seps) ==
    {i \in 1..Len(s) : s[i] \notin seps /\ (i = 1 \/ s[i - 1] \in seps)}

RunEnd(s, seps, i) ==
    CHOOSE j \in i..Len(s) :
        /\ \A k \in i..j : s[k] \notin seps
        /\ j = Len(s) \/ s[j + 1] \in seps

RunsOf(s, seps) ==
    [k \in 1..Cardinality(RunStarts(s, seps)) |->
        LET i == CHOOSE x \in RunStarts(s, seps) :
                    Cardinality({y \in RunStarts(s, seps) : y < x}) = k - 1
        IN SubSeq(s, i, RunEnd(s, seps, i))]

IsSearchFilter(c) == c.call = "filter"

\* the query.filter(...) calls the search made on a query, in order
SearchFilters(q) == SelectSeq(q.calls, IsSearchFilter)

\* the search made one predicate per run, in order, each with the pattern
\* of its run on every search field
OnePredicatePerRun(q, runs) ==
    /\ Len(SearchFilters(q)) = Len(runs)
    /\ \A k \in 1..Len(runs) :
          /\ Len(SearchFilters(q)[k].clauses) = Len(view._search_fields)
          /\ \A f \in 1..Len(view._search_fields) :
                SearchFilters(q)[k].clauses[f].ilike = parse_like_term(runs[k])

\* C12 as stated: every maximal run of non-whitespace characters of the
\* search string (spaces and tabs separate) is one term with one predicate.
TermsSplitOnWhitespace ==
    (op = "get_list" /\ view._search_supported)
        => OnePredicatePerRun(query, RunsOf(listArgs.search, Whitespace))

\* what search.split(' ') does instead: the search string is split on the
\* space character only: every maximal run of characters other than the space is
\* one term with one predicate, in order; no term contains a space (a tab
\* stays inside its term) and the empty pieces between spaces give no
\* predicate.
TermsSplitOnSpace ==
    (op = "get_list" /\ view._search_supported)
        => /\ OnePredicatePerRun(query, RunsOf(listArgs.search, {" "}))
           /\ \A k \in 1..Len(SearchFilters(query)) :
                 \A f \in 1..Len(view._search_fields) :
                    \A n \in 1..Len(SearchFilters(query)[k].clauses[f].ilike) :
                        SearchFilters(query)[k].clauses[f].ilike[n] # " "

TermsSplitOnSpaceWitness ==
    /\ op = "get_list"
    /\ view._search_fields = <<SearchField(ColTitle, <<>>)>>
    /\ listArgs.search = <<" ", "a", "\t", "B">>
    /\ Len(SearchFilters(query)) = 1
    /\ SearchFilters(query)[1].clauses[1].ilike = <<"%", "a", "\t", "B", "%">>

\* the pattern the search rules give for a term
PatternFor(term) ==
    IF Head(term) = "^" THEN Tail(term) \o <<"%">>
    ELSE IF Head(term) = "=" THEN Tail(term)
    ELSE <<"%">> \o term \o <<"%">>

Fold(text) == [i \in 1..Len(text) |-> Lower(text[i])]

StartsWith(value, t) ==
    Len(t) <= Len(value) /\ SubSeq(Fold(value), 1, Len(t)) = Fold(t)

Contains(value, t) ==
    \E i \in 0..(Len(value) - Len(t)) :
        SubSeq(Fold(value), i + 1, i + Len(t)) = Fold(t)

\* what a term asks of a column value, whatever the case of the letters
TermAsks(term, value) ==
    /\ value # NULL
    /\ IF Head(term) = "^" THEN StartsWith(value, Tail(term))
       ELSE IF Head(term) = "=" THEN Fold(value) = Fold(Tail(term))
       ELSE Contains(value, term)

ColumnValues == TextOver({"a", "b", "B", "^"}, 2) \cup {NULL}

\* C13: the predicate of a term is an ILIKE with the pattern %ZZZ% for a
\* plain term ZZZ, ZZZ% for ^ZZZ and ZZZ for =ZZZ, the same pattern on
\* every search field; it holds of a column value iff the value contains,
\* starts with, or equals ZZZ, letter case ignored.
TermPatterns ==
    (op = "get_list" /\ view._search_supported)
        => LET terms == RunsOf(listArgs.search, {" "})
           IN \A k \in 1..Len(terms) :
                 \A f \in 1..Len(view._search_fields) :
                    /\ DOMAIN SearchFilters(query)[k].clauses[f] = {"on", "ilike"}
                    /\ SearchFilters(query)[k].clauses[f].on.column =
                          view._search_fields[f].column
                    /\ SearchFilters(query)[k].clauses[f].ilike = PatternFor(terms[k])
                    /\ \A value \in ColumnValues :
                          ilike(value, SearchFilters(query)[k].clauses[f].ilike)
                              <=> TermAsks(terms[k], value)

TermPatternsWitness ==
    /\ op = "get_list"
    /\ Len(view._search_fields) = 2
    /\ listArgs.search = <<"^", "a", " ", "=">>
    /\ Len(SearchFilters(query)) = 2
    /\ SearchFilters(query)[1].clauses[1].ilike = <<"a", "%">>
    /\ SearchFilters(query)[1].clauses[2].ilike = <<"a", "%">>
    /\ SearchFilters(query)[2].clauses[2].ilike = <<>>

----------------------------------------------------------------------------
(* Properties of scaffolding                                               *)

\* the dotted name's segments: the tokens between its dots
Segments(text) == RunsOf(text, {"."})

\* a well-formed dotted name: single tokens separated by single dots
WellFormed(text) ==
    /\ text # <<>>
    /\ \A i \in 1..Len(text) : (text[i] = ".") <=> (i % 2 = 0)
    /\ Len(text) % 2 = 1

\* the class the walk is at after k segments, and the attribute segment k
\* names there
RECURSIVE ModelAfter(_, _)
ModelAfter(text, k) ==
    IF k = 0 THEN "post"
    ELSE LET v == Getattr(ModelAfter(text, k - 1), Segments(text)[k])
         IN IF v.kind = "rel" THEN v.target ELSE ModelAfter(text, k - 1)

ValueAt(text, k) == Getattr(ModelAfter(text, k - 1), Segments(text)[k])

LeadsElsewhere(v) == v.kind = "rel" /\ v.target # "post"

Resolves(text) ==
    WellFormed(text) /\ \A k \in 1..Len(Segments(text)) : ValueAt(text, k) # NoAttr

\* C14: for a dotted name that resolves, _get_field_with_path returns the
\* attribute its last segment names, and a join path holding, in segment
\* order, exactly the relationship attributes of the segments that lead to
\* a table other than the view's own; without such a segment the path is
\* empty.
DottedNamePath ==
    (op = "_get_field_with_path" /\ scaffold.name.str /\ Resolves(scaffold.name.text))
        => LET text == scaffold.name.text
               n == Len(Segments(text))
               steps == SelectSeq([k \in 1..n |-> ValueAt(text, k)], LeadsElsewhere)
           IN /\ propagated = "none"
              /\ scaffold.attr = ValueAt(text, n)
              /\ scaffold.path = steps
              /\ (\A k \in 1..n : ValueAt(text, k).kind # "rel")
                    => scaffold.path = <<>>

DottedNamePathWitness ==
    /\ op = "_get_field_with_path"
    /\ scaffold.name.str
    /\ scaffold.name.text = <<"author", ".", "city", ".", "name">>
    /\ scaffold.path = <<RelAuthor, RelCity>>
    /\ scaffold.attr = ColAttr("city", "name")

\* a relation the automatic detection may join: displayed, many-to-one or
\* many-to-many, and not pointing back to the view's own model
Detectable(p) ==
    /\ p.kind = "rel"
    /\ \E k \in 1..Len(view.properties) : view.properties[k] = p
    /\ p.target # "post"
    /\ Direction(p) \in {"MANYTOONE", "MANYTOMANY"}
    /\ \E i \in 1..Len(view._list_columns) : view._list_columns[i] = p.key

\* C15: after construction the eager-join list is column_select_related_list
\* itself when that is set and non-empty; otherwise it is empty when
\* column_auto_select_related is off, and else holds only (and all of the)
\* displayed many-to-one / many-to-many relations that do not point back to
\* the view's own model.
EagerJoinList ==
    op = "__init__"
        => IF ~view.column_select_related_list.none
              /\ view.column_select_related_list.items # <<>>
           THEN view._auto_joins = view.column_select_related_list.items
           ELSE IF ~view.column_auto_select_related
           THEN view._auto_joins = <<>>
           ELSE /\ \A i \in 1..Len(view._auto_joins) : Detectable(view._auto_joins[i])
                /\ \A p \in {RelAuthor, RelParent, RelTags, RelComments} :
                      Detectable(p) =>
                          \E i \in 1..Len(view._auto_joins) : view._auto_joins[i] = p

EagerJoinListWitness ==
    /\ op = "__init__"
    /\ view.column_select_related_list = ListOf(<<>>)
    /\ view.column_auto_select_related
    /\ view._list_columns = <<"parent", "tags">>
    /\ view._auto_joins = <<RelTags>>

EagerJoinListOverrideWitness ==
    /\ op = "__init__"
    /\ view.column_select_related_list = ListOf(<<RelTags, RelParent>>)
    /\ view.column_auto_select_related
    /\ view._auto_joins = <<RelTags, RelParent>>

InList(key, list) == \E i \in 1..Len(list) : list[i] = key

PropertyAt(key) ==
    CHOOSE p \in {ModelProperties[i] : i \in 1..Len(ModelProperties)} : p.key = key

\* the columns of a property that belong to the model's own table
OwnColumns(p) == {c \in {PropColumns(p)[i] : i \in 1..Len(PropColumns(p))} :
                     c.table = "post"}

\* C16: scaffold_list_columns lists a relationship only if it is
\* many-to-one, or if column_display_all_relations is set, and then lists
\* every relationship; a column property that is a foreign key is never
\* listed, a primary-key column only when column_display_pk is set, and a
\* plain single-column property always; the list keeps the mapper's order.
ListColumnsRule ==
    (op = "scaffold_list_columns" /\ propagated = "none")
        => /\ \A i \in 1..Len(ModelProperties) :
                LET p == ModelProperties[i]
                IN /\ p.kind = "rel" =>
                        (InList(p.key, scaffold.value) <=>
                            (view.column_display_all_relations
                                \/ Direction(p) = "MANYTOONE"))
                   /\ (p.kind = "column" /\ \E c \in OwnColumns(p) : HasForeignKeys(c))
                        => ~InList(p.key, scaffold.value)
                   /\ (p.kind = "column" /\ \E c \in OwnColumns(p) : IsPrimaryKey(c))
                        => (InList(p.key, scaffold.value) => view.column_display_pk)
                   /\ (/\ p.kind = "column"
                       /\ Cardinality(OwnColumns(p)) = 1
                       /\ \A c \in OwnColumns(p) :
                             /\ ~HasForeignKeys(c)
                             /\ ~IsPrimaryKey(c) \/ view.column_display_pk)
                        => InList(p.key, scaffold.value)
           /\ \A i, j \in 1..Len(scaffold.value) :
                i < j => \E m, n \in 1..Len(ModelProperties) :
                            /\ m < n
                            /\ ModelProperties[m].key = scaffold.value[i]
                            /\ ModelProperties[n].key = scaffold.value[j]

ListColumnsRuleWitness ==
    /\ op = "scaffold_list_columns"
    /\ propagated = "none"
    /\ ~view.column_display_all_relations
    /\ view.column_display_pk
    /\ scaffold.value = <<"id", "author">>
    /\ Len(ModelProperties) = 3
    /\ ModelProperties[2].key = "author_id"

\* a property that is sortable by default: one column, not a foreign key,
\* and a primary key only when primary keys are displayed
SortableByDefault(p) ==
    /\ p.kind = "column"
    /\ Len(PropColumns(p)) = 1
    /\ ~HasForeignKeys(PropColumns(p)[1])
    /\ IsPrimaryKey(PropColumns(p)[1]) => view.column_display_pk

DefaultSortable(columns) ==
    /\ DOMAIN columns =
          {<<ModelProperties[i].key>> : i \in {k \in 1..Len(ModelProperties) :
              SortableByDefault(ModelProperties[k])}}
    /\ \A i \in 1..Len(ModelProperties) :
          SortableByDefault(ModelProperties[i])
              => columns[<<ModelProperties[i].key>>] = PropColumns(ModelProperties[i])[1]

\* C17: the default sortable columns hold no foreign-key column and no
\* multi-column property, a primary-key column only when column_display_pk
\* is set, and every other single-column property; get_sortable_columns
\* returns this default when column_sortable_list is None, and for any other
\* value (the empty tuple included) the entries of that list instead.
SortableDefault ==
    /\ op = "scaffold_sortable_columns" => DefaultSortable(scaffold.value)
    /\ (op = "get_sortable_columns" /\ propagated = "none")
          => IF view.column_sortable_list.none
             THEN DefaultSortable(scaffold.value)
             ELSE DOMAIN scaffold.value =
                     {ColumnName(view.column_sortable_list.items[i]) :
                         i \in 1..Len(view.column_sortable_list.items)}

SortableDefaultWitness ==
    /\ op = "get_sortable_columns"
    /\ view.column_sortable_list.none
    /\ ~view.column_display_pk
    /\ Len(ModelProperties) = 3
    /\ ModelProperties[1].key = "id"
    /\ ModelProperties[3].key = "fulltitle"
    /\ DOMAIN scaffold.value = {<<"title">>}

SortableListWitness ==
    /\ op = "get_sortable_columns"
    /\ propagated = "none"
    /\ view.column_sortable_list = ListOf(<<>>)
    /\ scaffold.value = EmptyDict
    /\ \E i \in 1..Len(ModelProperties) : SortableByDefault(ModelProperties[i])

\* C18: is_action_allowed('delete') is False whenever can_delete is False,
\* whatever the base view answers; for every other action name, and for
\* 'delete' when can_delete is True, it is the base view's answer.
DeleteNeedsCanDelete ==
    op = "is_action_allowed"
        => IF scaffold.name.action = "delete" /\ ~view.can_delete
           THEN scaffold.value = FALSE
           ELSE scaffold.value = scaffold.name.base[scaffold.name.action]

DeleteNeedsCanDeleteWitness ==
    /\ op = "is_action_allowed"
    /\ ~view.can_delete
    /\ scaffold.name.action = "delete"
    /\ scaffold.name.base["delete"]
    /\ scaffold.value = FALSE

\* the entries one searchable attribute stands for: one per column, each
\* with the join path of the attribute
EntriesOf(p) ==
    [c \in 1..Len(PropColumns(_get_field_with_path(p).attr)) |->
        [column |-> PropColumns(_get_field_with_path(p).attr)[c],
         path |-> _get_field_with_path(p).path]]

\* C19: init_search returns True iff column_searchable_list is non-empty;
\* after it returned True, _search_fields holds exactly one (column, join
\* path) entry per column of each configured attribute, in configuration
\* order, whatever it held before the call.
SearchFieldsRebuilt ==
    (op = "init_search" /\ propagated = "none")
        => /\ scaffold.value <=>
                 (~view.column_searchable_list.none
                    /\ Len(view.column_searchable_list.items) > 0)
           /\ scaffold.value =>
                 view._search_fields =
                    Concat([i \in 1..Len(view.column_searchable_list.items) |->
                               EntriesOf(view.column_searchable_list.items[i])])

SearchFieldsRebuiltWitness ==
    /\ op = "init_search"
    /\ propagated = "none"
    /\ scaffold.value
    /\ scaffold.name.before # <<>>
    /\ view.column_searchable_list =
          ListOf(<<StrName(<<"author", ".", "fullname">>), ObjName(ColAttr("post", "title"))>>)
    /\ view._search_fields =
          <<SearchField(Col("user", "first"), <<RelAuthor>>),
            SearchField(Col("user", "last"), <<RelAuthor>>),
            SearchField(ColTitle, <<>>)>>

----------------------------------------------------------------------------
(* Properties of htmlsafe_dumps                                            *)

HtmlSpecial == {"<", ">", "&", "'"}

\* the \uXXXX escape of a character
UnicodeEscape(c) ==
    <<"\\", "u", "0", "0">> \o
        (IF c = "<" THEN <<"3", "c">> ELSE IF c = ">" THEN <<"3", "e">>
         ELSE IF c = "&" THEN <<"2", "6">> ELSE <<"2", "7">>)

\* C20: a string returned by htmlsafe_dumps holds none of the characters
\* <, >, & and ': it is the JSON text of the object with each occurrence
\* of one of them replaced by its \uXXXX escape and nothing else changed.
HtmlSafe ==
    (op = "htmlsafe_dumps" /\ propagated = "none")
        => /\ \A i \in 1..Len(scaffold.value) : scaffold.value[i] \notin HtmlSpecial
           /\ scaffold.value =
                 Concat([i \in 1..Len(JsonText(scaffold.name.obj)) |->
                     IF JsonText(scaffold.name.obj)[i] \in HtmlSpecial
                     THEN UnicodeEscape(JsonText(scaffold.name.obj)[i])
                     ELSE <<JsonText(scaffold.name.obj)[i]>>])

HtmlSafeWitness ==
    /\ op = "htmlsafe_dumps"
    /\ propagated = "none"
    /\ scaffold.name.obj = JStr(<<"<", "'", "&">>)
    /\ scaffold.value = <<"\"", "\\", "u", "0", "0", "3", "c",
                          "\\", "u", "0", "0", "2", "7",
                          "\\", "u", "0", "0", "2", "6", "\"">>

----------------------------------------------------------------------------
(* Properties of secure_filename                                           *)

\* C21: the name secure_filename returns is made of ASCII letters, digits,
\* '_', '.' and '-' only, holds no path separator, outside Windows neither
\* begins nor ends with '.' or '_', and is returned unchanged when
\* secure_filename is applied to it again on the same platform.
SecureFilenameSafe ==
    op = "secure_filename"
        => /\ \A i \in 1..Len(scaffold.value) :
                 /\ FilenameChar(scaffold.value[i])
                 /\ scaffold.value[i] \notin {"/", "\\"}
           /\ (scaffold.name.os_name # "nt" /\ scaffold.value # <<>>)
                 => /\ scaffold.value[1] \notin {".", "_"}
                    /\ scaffold.value[Len(scaffold.value)] \notin {".", "_"}
           /\ secure_filename(scaffold.value, scaffold.name.os_name) = scaffold.value

SecureFilenameSafeWitness ==
    /\ op = "secure_filename"
    /\ scaffold.name.os_name = "posix"
    /\ scaffold.name.filename = <<"/", "ç", "_">>
    /\ scaffold.value = <<"c">>

\* on Windows a device name is returned with an underscore before it, and
\* stays so on a second application
SecureFilenameDeviceWitness ==
    /\ op = "secure_filename"
    /\ scaffold.name.os_name = "nt"
    /\ scaffold.name.filename = <<"c", "o", "n", ".", "t", "x", "t">>
    /\ scaffold.value = <<"_", "c", "o", "n", ".", "t", "x", "t">>

----------------------------------------------------------------------------
(* Properties of the count query of get_list                               *)

\* an alias of the query, as the alias made at the same point on the
\* count query
CountAlias(a) == IF a = None THEN None ELSE [a EXCEPT !.of = count_query.base]

\* a call on the query, written against the aliases of the count query
CountCall(c) ==
    IF IsJoin(c)
    THEN [c EXCEPT !.via = CountAlias(c.via), !.alias = CountAlias(c.alias)]
    ELSE IF c.call = "filter"
    THEN [c EXCEPT !.clauses =
            [k \in 1..Len(c.clauses) |->
                [on |-> ColumnOf(c.clauses[k].on.column,
                                 CountAlias(c.clauses[k].on.alias)),
                 ilike |-> c.clauses[k].ilike]]]
    ELSE IF c.call = "apply"
    THEN [c EXCEPT !.alias = CountAlias(c.alias)]
    ELSE c

\* the calls made on the query after the count query was complete
AfterCount == (Len(count_query.calls) + 1)..Len(query.calls)

\* the count query received, call for call, the joins, search filters and
\* filter applications the query received while search and filters ran
SamePredicates ==
    /\ Len(count_query.calls) <= Len(query.calls)
    /\ \A i \in 1..Len(count_query.calls) :
          /\ query.calls[i].call = count_query.calls[i].call
          /\ CountCall(query.calls[i]) = count_query.calls[i]
    /\ \A i \in AfterCount : query.calls[i].call \notin {"filter", "apply", "join"}

\* an outer join along a many-to-one relationship yields one row for each
\* row it joins to; along a to-many relationship or a bare table it yields
\* one row for each match
ToOne(item) == item.kind = "rel" /\ Direction(item) = "MANYTOONE"

\* calls that leave the number of rows of a query as it was
KeepsRows(c) ==
    \/ c.call \in {"options", "order_by"}
    \/ c.call = "outerjoin" /\ ToOne(c.item)

Paging(c) == c.call \in {"offset", "limit", "all"}

\* C22: get_list gives the count query the same search and filter
\* predicates as the query (terms, columns, cleaned values, order, join
\* paths), so that the count is the number of rows the query yields before
\* offset and limit; with simple_list_pager there is no count query and
\* the count is None.
CountIsRowsOfQuery ==
    (op = "get_list" /\ propagated = "none")
        => IF view.simple_list_pager
           THEN count_query = NoQuery /\ count = "None"
           ELSE /\ count = "scalar"
                /\ SamePredicates
                /\ \A i \in AfterCount :
                      KeepsRows(query.calls[i]) \/ Paging(query.calls[i])

\* what holds instead: the predicates are the same, and the joins that
\* sorting adds after the count was taken are on the query alone
CountQueryMirrorsQuery ==
    (op = "get_list" /\ propagated = "none")
        => IF view.simple_list_pager
           THEN count_query = NoQuery /\ count = "None"
           ELSE /\ count = "scalar"
                /\ SamePredicates

CountQueryMirrorsQueryWitness ==
    /\ op = "get_list"
    /\ propagated = "none"
    /\ ~view.simple_list_pager
    /\ \E i \in 1..Len(count_query.calls) : IsJoin(count_query.calls[i])
    /\ \E i \in 1..Len(count_query.calls) : count_query.calls[i].call = "filter"
    /\ \E i \in 1..Len(count_query.calls) : count_query.calls[i].call = "apply"

\* a sort along a to-many relationship joins it after the count
SortJoinAfterCount ==
    /\ op = "get_list"
    /\ propagated = "none"
    /\ \E i \in AfterCount :
          query.calls[i].call = "outerjoin" /\ query.calls[i].item = RelTags

NoPagerWitness ==
    /\ op = "get_list"
    /\ view.simple_list_pager
    /\ listArgs.search # <<>>
    /\ listArgs.filters # <<>>
    /\ count = "None"

====
